---------------------------- MODULE Spec2Model ----------------------------
(***************************************************************************)
(* Content indexing, retrieval and translation pipeline of the Physical AI *)
(* textbook backend.                                                       *)
(*                                                                         *)
(*   SpecSplit     IndexingService._split_text, one loop iteration a step  *)
(*   SpecIndex     IndexingService.index_chapter, one call a step          *)
(*   SpecTranslate TranslationService.translate_to_urdu and its cache      *)
(*   SpecProvider  LLMProvider's selection of a backend                    *)
(*   SpecRag       RAGService.query over the provider and the vector store *)
(***************************************************************************)
EXTENDS Integers, Sequences, FiniteSets, TLC

VARIABLES
    spN,        \* _split_text: len(words) of the section text
    spC,        \* _split_text: chunk_size
    spO,        \* _split_text: overlap
    spStart,    \* _split_text: local `start`
    spChunks,   \* _split_text: local `chunks`, each window as [start, end)
    spPc,       \* _split_text: "begin" | "loop" | "done"
    dbChunks,   \* the vector_chunks table, rows in insertion order
    vsPoints,   \* the points of the vector store collection
    ixResult,   \* what the last index_chapter call returned
    ixCalls,    \* the external calls the last index_chapter call made, in order
    ixLast,     \* the arguments of the last index_chapter call
    ixPrev,     \* the arguments and result of the call before it
    ixPass,     \* len(chunks) and len(embeddings) of the last call, once embedded
    ixOps,      \* index_chapter calls made so far
    tcCache,    \* the translation_cache table
    now,        \* the clock, in days
    trTicks,    \* times the clock has advanced
    trKeys,     \* the providers TranslationService has an API key for
    trResult,   \* what the last translate_to_urdu call returned
    trCalls,    \* the texts the last call sent to a provider, in order
    trLast,     \* the arguments of the last translate_to_urdu call
    trPrev,     \* the arguments and result of the call before it
    trOps,      \* translate_to_urdu calls made so far
    pvClients,  \* LLMProvider: the backends whose client was initialised
    pvGeminiAvailable,  \* what gemini_client.is_available() answers
    LLM_PROVIDER,       \* the preferred completion backend, or "auto"
    EMBEDDING_PROVIDER, \* the preferred embedding backend, or "auto"
    pvSelected, \* the capability last selected for and the client returned
    rgPoints,   \* Qdrant: the points of the collection, with their similarity
                \* to the query vector in hundredths
    rgLast,     \* the arguments of the last RAGService.query call
    rgResult,   \* what that call returned
    rgCalls,    \* the provider calls that call made, in order
    rgContext,  \* the context chunks it passed to the completion provider
    rgOps,      \* query calls made so far
    ckContent,  \* _translate_in_chunks_gemini: the content to translate
    ckChunks,   \* the sub-chunks built from its paragraphs
    ckSent,     \* the sub-chunks sent to the provider so far, in order
    ckDone,     \* the translations that have returned, in order
    ckOutput,   \* the text returned
    ckPc,       \* where the call is: "idle", "begin", "loop", "await",
                \* "done", "raised"
    qdCtorOk,   \* QdrantVectorStore: whether QdrantClient(url, api_key) can
                \* be constructed in this environment
    qdReachable,    \* whether the Qdrant server answers requests
    qdClient,       \* _client: "None" or "client"
    qdInitialized,  \* _initialized
    qdCollection,   \* whether the collection exists on the server
    qdLast,     \* the last gateway operation called, whether its request
                \* to Qdrant fails for a reason of its own, and what became
                \* of the request
    qdReturn,   \* what that operation returned
    qdFlips,    \* times the server went down or came back
    qdOps,      \* gateway operations called so far
    qdAttempt,  \* history of _ensure_initialized: how many times its body
                \* ran past the _initialized test, and whether the
                \* connection or the collection check then failed
    \* api/rag.py, POST /query
    apRequest,  \* the last request and what its providers and store did
    apResponse, \* the HTTP response to it
    apCalls,    \* the embedding, vector store and completion calls made for it
    apOps,      \* requests handled so far
    \* api/translation.py, POST /urdu/{chapter_id}/refresh
    rfLast,     \* the last refresh request, the translate_to_urdu call it
                \* made and the HTTP response to it
    \* concurrent translate_to_urdu calls, each on a database session of its own
    ccRows,     \* the committed rows of translation_cache, each with its id
    ccPc,       \* where each call is
    ccSeen,     \* the row each call's lookup selected
    ccLookup,   \* what get_cached_translation returned to each call
    ccPending,  \* the ids matched by each call's DELETE, not yet committed
    ccReturn,   \* what each call returned
    ccEvicted,  \* times a row was removed by a lookup, by row id
    \* one index_chapter pass, from the embedding of its chunks to the commit
    ipN,        \* chunks _chunk_content gave
    ipVsUp,     \* whether the vector store answers
    ipPc,       \* where the pass is
    ipRequests, \* the embedding batches requested so far, in order
    ipInFlight, \* the batches requested and not yet returned
    ipEmbeddings,   \* embeddings collected so far
    ipRows,     \* rows added to the session and flushed
    ipPoints,   \* points upserted into the vector store
    ipCommitted,    \* rows committed
    \* index_all_chapters
    iaChapters, \* the chapters argument
    iaForce,    \* the force_reindex argument
    iaResults,  \* the results dictionary
    iaPc        \* "loop", "done" when it has returned, "hung" when an
                \* index_chapter call does not return

splitVars == <<spN, spC, spO, spStart, spChunks, spPc>>
indexVars == <<dbChunks, vsPoints, ixResult, ixCalls, ixLast, ixPrev, ixPass, ixOps>>

transVars == <<tcCache, now, trTicks, trKeys, trResult, trCalls, trLast, trPrev, trOps>>

provVars == <<pvClients, pvGeminiAvailable, LLM_PROVIDER, EMBEDDING_PROVIDER, pvSelected>>

ragVars == <<rgPoints, rgLast, rgResult, rgCalls, rgContext, rgOps>>

chunkVars == <<ckContent, ckChunks, ckSent, ckDone, ckOutput, ckPc>>

gateVars == <<qdCtorOk, qdReachable, qdClient, qdInitialized, qdCollection, qdLast, qdReturn, qdFlips, qdOps, qdAttempt>>

apiVars == <<apRequest, apResponse, apCalls, apOps>>

refreshVars == <<rfLast>>

cacheVars == <<ccRows, ccPc, ccSeen, ccLookup, ccPending, ccReturn, ccEvicted>>

passVars == <<ipN, ipVsUp, ipPc, ipRequests, ipInFlight, ipEmbeddings, ipRows, ipPoints,
              ipCommitted>>

allVars == <<iaChapters, iaForce, iaResults, iaPc>>

vars == <<splitVars, indexVars, transVars, provVars, ragVars, chunkVars, gateVars, apiVars,
          refreshVars, cacheVars, passVars, allVars>>

(***************************************************************************)
(* Program constants (IndexingService.__init__).                           *)
(***************************************************************************)
chunk_size == 500
chunk_overlap == 50
max_batch_size == 20
CACHE_DURATION_DAYS == 30
top_k == 5
score_threshold == 50   \* 0.5, similarities being in hundredths
MAX_CHUNK_SIZE == 2000

(***************************************************************************)
(* Bounds of the model.                                                    *)
(***************************************************************************)
MaxWords == 9        \* section lengths 0..MaxWords are enumerated
MaxChunkSize == 4    \* chunk sizes 1..MaxChunkSize are enumerated
MaxWindows == 6      \* windows a run of _split_text may emit in the model
ExampleWords == 1200 \* the documented 1200-word single-section example
MaxTransOps == 2     \* translate_to_urdu calls in one behaviour
MaxTicks == 1        \* times the clock advances in one behaviour
MaxParagraphs == 4   \* paragraphs of a content translated in sub-chunks
MaxGateOps == 2      \* vector store operations in one behaviour
MaxFlips == 1        \* times the Qdrant server goes down or comes back
MaxQueries == 1      \* RAGService.query calls in one behaviour
MaxRequests == 1     \* POST /query requests in one behaviour
MaxCallers == 2      \* translate_to_urdu calls in flight at once
MaxPassChunks == 41  \* chunks of the longest document of a step-wise pass
MaxIndexOps == 2     \* index_chapter calls in one behaviour

Min(a, b) == IF a <= b THEN a ELSE b

\* ceil(a / b) for b > 0 and any integer a
CeilDiv(a, b) == -((-a) \div b)

(***************************************************************************)
(* Text.  A string is a sequence of tokens: "L" a word of 60 characters,   *)
(* "s" a word of 5 characters, "SP" a space, "NL" a line break, "H" the    *)
(* text of a heading line ("## Title"), "I" the text of an import line,    *)
(* "Q" a <ChapterQuiz/> tag; for translation "w" an English word, "u" an   *)
(* Urdu word, "B" an English paragraph of 900 characters, "Bu" its Urdu    *)
(* translation, "T" a technical term of TECHNICAL_TERMS in any case        *)
(* ("Python", "json"), "TU" its bracketed transliteration, "c" any other   *)
(* word of code, "F" a code fence (```), "CB0".."CB2" the placeholders     *)
(* <<<CODE_BLOCK_n>>>, "PX" the prefix of the placeholder translation.     *)
(* Two strings are equal exactly when their token sequences are.  The      *)
(* operators below are the Python string operations the services use, on   *)
(* that representation.                                                    *)
(***************************************************************************)
IsSpace(t) == t \in {"SP", "NL"}

CharLen(str) ==
    LET len[i \in 0..Len(str)] ==
            IF i = 0 THEN 0
            ELSE len[i - 1] +
                 CASE str[i] = "L" -> 60
                   [] str[i] = "s" -> 5
                   [] str[i] = "H" -> 8
                   [] str[i] = "I" -> 12
                   [] str[i] = "Q" -> 15
                   [] str[i] \in {"w", "u", "c"} -> 5
                   [] str[i] \in {"B", "Bu"} -> 900
                   [] str[i] = "T" -> 6
                   [] str[i] = "TU" -> 9
                   [] str[i] = "F" -> 3
                   [] str[i] \in {"CB0", "CB1", "CB2"} -> 18
                   [] str[i] = "PX" -> 6
                   [] OTHER -> 1
    IN  len[Len(str)]

RECURSIVE LStrip(_)
LStrip(str) ==
    IF str # <<>> /\ IsSpace(Head(str)) THEN LStrip(Tail(str)) ELSE str

RECURSIVE RStrip(_)
RStrip(str) ==
    IF str # <<>> /\ IsSpace(str[Len(str)])
        THEN RStrip(SubSeq(str, 1, Len(str) - 1))
        ELSE str

\* str.strip()
Strip(str) == RStrip(LStrip(str))

\* str.split(sep) for a one-token separator: always at least one piece
SplitOn(str, sep) ==
    LET at == SelectSeq([i \in 1..Len(str) |-> i], LAMBDA i : str[i] = sep) IN
    [k \in 1..(Len(at) + 1) |->
        SubSeq(str,
               IF k = 1 THEN 1 ELSE at[k - 1] + 1,
               IF k = Len(at) + 1 THEN Len(str) ELSE at[k] - 1)]

\* sep.join(parts)
RECURSIVE Join(_, _)
Join(parts, sep) ==
    IF parts = <<>> THEN <<>>
    ELSE IF Len(parts) = 1 THEN parts[1]
    ELSE parts[1] \o sep \o Join(Tail(parts), sep)

\* str.split(): the maximal runs of non-space tokens
RECURSIVE Words(_)
Words(str) ==
    LET t == LStrip(str) IN
    IF t = <<>> THEN <<>>
    ELSE LET ends == {i \in 1..Len(t) : IsSpace(t[i])}
             k == IF ends = {} THEN Len(t) + 1
                  ELSE CHOOSE i \in ends : \A j \in ends : i <= j
         IN  <<SubSeq(t, 1, k - 1)>> \o Words(SubSeq(t, k, Len(t)))

\* "".join(parts)
RECURSIVE Concat(_)
Concat(parts) ==
    IF parts = <<>> THEN <<>> ELSE Head(parts) \o Concat(Tail(parts))

\* the tokens of str that are not in drop, in order
Without(str, drop) == SelectSeq(str, LAMBDA t : t \notin drop)

\* re.sub(r'\n{3,}', '\n\n', str): of a run of line breaks the last two stay
CollapseBlankLines(str) ==
    LET keep == SelectSeq([i \in 1..Len(str) |-> i], LAMBDA i :
                    ~(/\ i + 2 <= Len(str)
                      /\ str[i] = "NL" /\ str[i + 1] = "NL" /\ str[i + 2] = "NL"))
    IN  [k \in 1..Len(keep) |-> str[keep[k]]]

(***************************************************************************)
(* The state of the parts a specification does not exercise.               *)
(***************************************************************************)
NoCall == [chapter_id |-> "", content |-> <<>>, force_reindex |-> FALSE]
NoResult == [status |-> "none", chapter_id |-> "", chunk_count |-> 0, error |-> ""]
NoPass == [embedded |-> FALSE, chunks |-> 0, embeddings |-> 0]

IndexIdle ==
    /\ dbChunks = <<>>
    /\ vsPoints = {}
    /\ ixResult = NoResult
    /\ ixCalls = <<>>
    /\ ixLast = NoCall
    /\ ixPrev = [call |-> NoCall, result |-> NoResult]
    /\ ixPass = NoPass
    /\ ixOps = 0

NoTranslate == [content |-> <<>>, chapter_id |-> "None", preserve_formatting |-> FALSE,
                behaviours |-> <<>>, at |-> 0]
NoTranslation == [text |-> <<>>, cache_hit |-> FALSE]

TransIdle ==
    /\ tcCache = {}
    /\ now = 0
    /\ trTicks = 0
    /\ trKeys = {}
    /\ trResult = NoTranslation
    /\ trCalls = <<>>
    /\ trLast = NoTranslate
    /\ trPrev = [call |-> NoTranslate, result |-> NoTranslation]
    /\ trOps = 0

NoSelection == [capability |-> "none", client |-> "none"]

\* no selection made yet
NotSelected == pvSelected = NoSelection

ProviderIdle ==
    /\ pvClients = {}
    /\ pvGeminiAvailable = FALSE
    /\ LLM_PROVIDER = "auto"
    /\ EMBEDDING_PROVIDER = "auto"
    /\ NotSelected

NoQuery == [query |-> "", context_mode |-> "general", selected_text |-> "None",
            chapter_id |-> "None", embedding |-> "none", store |-> "none",
            completion |-> "none", elapsed |-> 0, error_text |-> ""]
NoAnswer == [raised |-> FALSE, answer |-> <<>>, sources |-> <<>>, latency |-> 0, context_count |-> 0,
             model |-> "none"]

\* no query made yet
NotQueried ==
    /\ rgLast = NoQuery
    /\ rgResult = NoAnswer
    /\ rgCalls = <<>>
    /\ rgContext = <<>>
    /\ rgOps = 0

RagIdle == rgPoints = {} /\ NotQueried

\* no chunked translation under way
NotChunking ==
    /\ ckChunks = <<>>
    /\ ckSent = <<>>
    /\ ckDone = <<>>
    /\ ckOutput = <<>>

ChunkIdle == ckContent = <<>> /\ ckPc = "idle" /\ NotChunking

NoGateCall == [op |-> "none", fails |-> FALSE, outcome |-> "none"]
NoAttempt == [count |-> 0, failed |-> FALSE]
NoGateReturn == [raised |-> FALSE, ok |-> FALSE, results |-> <<>>, status |-> "none"]

\* QdrantVectorStore.__init__ with lazy_init, nothing called yet
GateNew ==
    /\ qdClient = "None"
    /\ qdInitialized = FALSE
    /\ qdLast = NoGateCall
    /\ qdReturn = NoGateReturn
    /\ qdFlips = 0
    /\ qdOps = 0
    /\ qdAttempt = NoAttempt

GateIdle == qdCtorOk = FALSE /\ qdReachable = FALSE /\ qdCollection = FALSE /\ GateNew

NoResponse == [status_code |-> 0, detail |-> <<>>, answer |-> <<>>, sources |-> <<>>,
               latency |-> 0]

NoRefresh == [chapter_id |-> "None", op |-> 0, status_code |-> 0, urdu_content |-> <<>>]

RefreshIdle == rfLast = NoRefresh

Callers == 1..MaxCallers
NoRow == [id |-> -1, chapter_id |-> "None", content_hash |-> <<>>, urdu_content |-> <<>>,
          expires_at |-> 0]
NoLookup == [returned |-> FALSE, hit |-> FALSE, raised |-> FALSE, text |-> <<>>]
NoReturn == [returned |-> FALSE, text |-> <<>>, cache_hit |-> FALSE]

\* no call started
NoCallers ==
    /\ ccPc = [p \in Callers |-> "lookup"]
    /\ ccSeen = [p \in Callers |-> NoRow]
    /\ ccLookup = [p \in Callers |-> NoLookup]
    /\ ccPending = [p \in Callers |-> {}]
    /\ ccReturn = [p \in Callers |-> NoReturn]
    /\ ccEvicted = [i \in {0} |-> 0]

CacheIdle == ccRows = {} /\ NoCallers

\* a pass that has not requested anything yet
PassNew ==
    /\ ipPc = "embedding"
    /\ ipRequests = <<>>
    /\ ipInFlight = {}
    /\ ipEmbeddings = 0
    /\ ipRows = 0
    /\ ipPoints = 0
    /\ ipCommitted = 0

PassIdle == ipN = 0 /\ ipVsUp = FALSE /\ PassNew

\* lines 355-361: the results dictionary before the loop
NewResults(chapters) ==
    [total |-> Len(chapters), success |-> 0, skipped |-> 0, errors |-> 0, details |-> <<>>]

AllIdle ==
    /\ iaChapters = <<>>
    /\ iaForce = FALSE
    /\ iaResults = NewResults(<<>>)
    /\ iaPc = "idle"

\* no request made yet
ApiIdle ==
    /\ apRequest = NoQuery
    /\ apResponse = NoResponse
    /\ apCalls = <<>>
    /\ apOps = 0

(***************************************************************************)
(* IndexingService._split_text                                             *)
(***************************************************************************)
SplitIdle ==
    /\ spN = 0 /\ spC = 1 /\ spO = 0
    /\ spStart = 0 /\ spChunks = <<>> /\ spPc = "idle"

\* Inputs: every small (N, C, O) with 0 <= O < C, and the default
\* configuration on the documented example.
SplitInputs ==
    {<<n, c, o>> : n \in 0..MaxWords, c \in 1..MaxChunkSize, o \in 0..(MaxChunkSize - 1)}
        \cup {<<ExampleWords, chunk_size, chunk_overlap>>}

SplitInit ==
    /\ \E in \in {t \in SplitInputs : t[3] < t[2]} :
          /\ spN = in[1]
          /\ spC = in[2]
          /\ spO = in[3]
    /\ spStart = 0
    /\ spChunks = <<>>
    /\ spPc = "begin"
    /\ IndexIdle
    /\ TransIdle
    /\ ProviderIdle
    /\ RagIdle /\ ChunkIdle /\ GateIdle /\ ApiIdle /\ RefreshIdle /\ CacheIdle /\ PassIdle /\ AllIdle

\* lines 236-242: words = text.split(); the early return for a short text,
\* else chunks = [], start = 0 and the first test of the while condition.
SplitTextBegin ==
    /\ spPc = "begin"
    /\ IF spN <= spC
          THEN /\ spChunks' = <<[start |-> 0, end |-> spN]>>
               /\ spPc' = "done"
          ELSE /\ spChunks' = <<>>
               /\ spPc' = IF 0 < spN THEN "loop" ELSE "done"
    /\ spStart' = 0
    /\ UNCHANGED <<spN, spC, spO>>
    /\ UNCHANGED <<indexVars, transVars, provVars, ragVars, chunkVars, gateVars, apiVars, refreshVars, cacheVars, passVars, allVars>>

\* The window one iteration appends (lines 245-247).
SplitWindow(start, n, c) == [start |-> start, end |-> Min(start + c, n)]

\* `start` after one iteration (line 250).
SplitAdvance(start, n, c, o) == Min(start + c, n) - o

\* lines 244-252: one iteration of the while loop.  The loop is left by the
\* break (start >= len(words)) or by the while condition, which test the same.
SplitTextLoop ==
    /\ spPc = "loop"
    /\ Len(spChunks) < MaxWindows
    /\ spChunks' = Append(spChunks, SplitWindow(spStart, spN, spC))
    /\ spStart' = SplitAdvance(spStart, spN, spC, spO)
    /\ spPc' = IF spStart' >= spN THEN "done" ELSE "loop"
    /\ UNCHANGED <<spN, spC, spO>>
    /\ UNCHANGED <<indexVars, transVars, provVars, ragVars, chunkVars, gateVars, apiVars, refreshVars, cacheVars, passVars, allVars>>

SplitNext == SplitTextBegin \/ SplitTextLoop

SpecSplit == SplitInit /\ [][SplitNext]_vars

\* _split_text is straight-line synchronous code: a call that can take a
\* step takes it
FairSpecSplit == SpecSplit /\ WF_vars(SplitNext)

(***************************************************************************)
(* C2: for a section of N words, chunk size C and overlap O (0 <= O < C),  *)
(* N <= C gives exactly one window; N > C gives exactly                    *)
(* ceil((N - O) / (C - O)) windows, window i starting at word i * (C - O). *)
(* Stated over every state of a run: the windows emitted so far start at   *)
(* multiples of C - O, never number more than the formula allows, and      *)
(* number exactly that many once _split_text has returned.                 *)
(***************************************************************************)
ExpectedWindows(n, c, o) == IF n <= c THEN 1 ELSE CeilDiv(n - o, c - o)

C2_WindowSequence ==
    /\ Len(spChunks) <= ExpectedWindows(spN, spC, spO)
    /\ spN > spC =>
          \A i \in 1..Len(spChunks) : spChunks[i].start = (i - 1) * (spC - spO)
    /\ spPc = "done" => Len(spChunks) = ExpectedWindows(spN, spC, spO)


(***************************************************************************)
(* IndexingService: chunking                                               *)
(***************************************************************************)

\* _split_text's while loop (lines 244-252) run to its end, or cut off after
\* MaxWindows windows when it has not ended by then.
RECURSIVE SplitLoop(_, _, _, _, _)
SplitLoop(start, n, c, o, acc) ==
    IF Len(acc) >= MaxWindows
        THEN [returns |-> FALSE, windows |-> acc]
        ELSE LET acc2 == Append(acc, SplitWindow(start, n, c))
                 start2 == SplitAdvance(start, n, c, o)
             IN  IF start2 >= n
                    THEN [returns |-> TRUE, windows |-> acc2]
                    ELSE SplitLoop(start2, n, c, o, acc2)

\* _split_text(text, chunk_size, overlap) on a string
SplitText(text, c, o) ==
    LET words == Words(text) IN
    IF Len(words) <= c
        THEN [returns |-> TRUE, chunks |-> <<text>>]
        ELSE LET run == SplitLoop(0, Len(words), c, o, <<>>)
             IN  [returns |-> run.returns,
                  chunks |-> [i \in 1..Len(run.windows) |->
                                 Join([j \in 1..(run.windows[i].end - run.windows[i].start) |->
                                          words[run.windows[i].start + j]],
                                      <<"SP">>)]]

\* _clean_content: import lines emptied, component tags removed, three or
\* more line breaks collapsed to two, the result stripped.
CleanContent(content) ==
    LET lines == SplitOn(content, "NL")
        noImports == Join([i \in 1..Len(lines) |->
                              IF lines[i] # <<>> /\ lines[i][1] = "I"
                                  THEN <<>> ELSE lines[i]],
                          <<"NL">>)
    IN  Strip(CollapseBlankLines(Without(noImports, {"Q"})))

\* re.match(r'^(#{2,3})\s+(.+)$', line)
IsHeadingLine(line) == line = <<"H">>

\* _split_by_sections: the loop over the lines, then the last section
RECURSIVE SectionsLoop(_, _, _)
SectionsLoop(lines, current, sections) ==
    IF lines = <<>>
        THEN IF Strip(current.text) # <<>> THEN Append(sections, current) ELSE sections
        ELSE IF IsHeadingLine(Head(lines))
            THEN SectionsLoop(Tail(lines),
                              [heading |-> Strip(Head(lines)), text |-> <<>>],
                              IF Strip(current.text) # <<>>
                                  THEN Append(sections, current) ELSE sections)
            ELSE SectionsLoop(Tail(lines),
                              [current EXCEPT !.text = @ \o Head(lines) \o <<"NL">>],
                              sections)

SplitBySections(content) ==
    SectionsLoop(SplitOn(content, "NL"), [heading |-> <<>>, text |-> <<>>], <<>>)

\* the chunks of one section that are long enough (lines 160-162)
KeptChunks(texts) == SelectSeq(texts, LAMBDA t : ~(CharLen(Strip(t)) < 50))

\* _chunk_content: chunk_index counts the kept chunks across all sections.
\* returns is FALSE when _split_text does not return for some section.
RECURSIVE ChunkLoop(_, _, _)
ChunkLoop(sections, chapter_id, chunks) ==
    IF sections = <<>> THEN [returns |-> TRUE, chunks |-> chunks]
    ELSE LET section == Head(sections) IN
         IF Strip(section.text) = <<>>
             THEN ChunkLoop(Tail(sections), chapter_id, chunks)
             ELSE LET split == SplitText(section.text, chunk_size, chunk_overlap)
                      kept == KeptChunks(split.chunks)
                      new == [i \in 1..Len(kept) |->
                                 [content |-> kept[i],
                                  heading |-> section.heading,
                                  chapter_id |-> chapter_id,
                                  chunk_index |-> Len(chunks) + i - 1]]
                  IN  IF ~split.returns
                         THEN [returns |-> FALSE, chunks |-> chunks]
                         ELSE ChunkLoop(Tail(sections), chapter_id, chunks \o new)

ChunkContent(content, chapter_id) ==
    ChunkLoop(SplitBySections(CleanContent(content)), chapter_id, <<>>)

(***************************************************************************)
(* IndexingService.index_chapter                                           *)
(***************************************************************************)
Chapters == {"week-1-intro", "week-2-ros2"}

RECURSIVE Repeat(_, _)
Repeat(str, n) == IF n = 0 THEN <<>> ELSE str \o Repeat(str, n - 1)

\* The documents the model indexes.
Docs ==
    { <<"L", "NL">>,                            \* one line, ending in a line break
      <<"L", "SP", "s">>,                       \* one line, no final line break
      <<"s", "NL">>,                            \* too short to give a chunk
      <<"H", "NL", "L", "NL">>,                 \* a heading and its section
      <<"I", "NL", "L", "NL", "NL", "NL", "NL", "s", "NL", "H", "NL", "L", "SP", "L", "NL", "Q", "NL">>,
      Repeat(<<"H", "NL", "L", "NL">>, max_batch_size + 1) }   \* two embedding batches

\* _calculate_hash: an MD5 digest, taken to be free of collisions
CalculateHash(str) == <<"md5", str>>

\* _get_existing_chunks
ExistingChunks(chapter_id) == SelectSeq(dbChunks, LAMBDA r : r.chapter_id = chapter_id)

\* lines 61-68: the stored chunks' text hashes to the hash of the content
ContentUnchanged(existing, content) ==
    /\ Len(existing) > 0
    /\ CalculateHash(Concat([i \in 1..Len(existing) |-> existing[i].content]))
          = CalculateHash(content)

\* _generate_embeddings_batch: the batches texts[i : i + max_batch_size]
NumBatches(n) == CeilDiv(n, max_batch_size)
BatchOf(texts, k) ==
    SubSeq(texts, (k - 1) * max_batch_size + 1, Min(k * max_batch_size, Len(texts)))

\* generate_embeddings_batch of a provider client: one vector per text, or
\* [] when the request failed, or a response with an item missing.
BatchOutcomes == {"ok", "empty", "short"}
Embedding(text) == <<"embedding", text>>
BatchEmbeddings(batch, outcome) ==
    CASE outcome = "ok" -> [i \in 1..Len(batch) |-> Embedding(batch[i])]
      [] outcome = "short" -> [i \in 1..(Len(batch) - 1) |-> Embedding(batch[i])]
      [] OTHER -> <<>>

RECURSIVE GenerateEmbeddingsBatch(_, _, _)
GenerateEmbeddingsBatch(texts, outcomes, k) ==
    IF k > NumBatches(Len(texts)) THEN <<>>
    ELSE BatchEmbeddings(BatchOf(texts, k), outcomes[k])
            \o GenerateEmbeddingsBatch(texts, outcomes, k + 1)

\* Mutant: the count check of lines 96-102 left out.
EmbeddingsMatch_Unchecked(embeddings, chunks) == TRUE

\* lines 96-102: the pass goes on to storage
EmbeddingsMatch(embeddings, chunks) == Len(embeddings) = Len(chunks)

\* VectorChunk ids: a fresh one for each row (uuid4)
NewId(n, i) == <<"chunk", n, i>>

\* _store_chunks, with the vector store reachable or not: a row for each
\* (chunk, embedding) pair and, when the store is reachable, a point.
StoredRows(chunks, embeddings, op) ==
    [i \in 1..Min(Len(chunks), Len(embeddings)) |->
        [id |-> NewId(op, i),
         chapter_id |-> chunks[i].chapter_id,
         heading |-> chunks[i].heading,
         chunk_index |-> chunks[i].chunk_index,
         content |-> chunks[i].content,
         embedding_id |-> NewId(op, i)]]

StoredPoints(chunks, embeddings, op) ==
    {[id |-> NewId(op, i),
      chapter_id |-> chunks[i].chapter_id,
      content |-> chunks[i].content,
      vector |-> embeddings[i]] : i \in 1..Min(Len(chunks), Len(embeddings))}

CallsOf(n, call) == [i \in 1..n |-> call]

\* _chunk_content of each document of the model, for a given chapter_id
DocChunks == [d \in Docs |-> ChunkContent(d, "")]
ChunksOf(content, chapter_id) ==
    [returns |-> DocChunks[content].returns,
     chunks |-> [i \in 1..Len(DocChunks[content].chunks) |->
                    [DocChunks[content].chunks[i] EXCEPT !.chapter_id = chapter_id]]]

\* _delete_chapter_chunks: delete_by_filter on the vector store (nothing is
\* deleted when the store does not answer), then the rows of the chapter.
\* dbDel: the delete statement and its commit go through; when they raise,
\* lines 332-335 roll back and the rows stay.
RowsAfterDelete(chapter_id, dbDel) ==
    IF dbDel THEN SelectSeq(dbChunks, LAMBDA r : r.chapter_id # chapter_id)
             ELSE dbChunks
PointsAfterDelete(chapter_id, vsUp) ==
    IF vsUp THEN {p \in vsPoints : p.chapter_id # chapter_id} ELSE vsPoints

IndexResult(status, chapter_id, chunk_count, error) ==
    [status |-> status, chapter_id |-> chapter_id,
     chunk_count |-> chunk_count, error |-> error]

\* index_chapter(chapter_id, content, title, force_reindex), the whole call.
\* vsUp: the vector store answers during this call; dbDel: the deletion of
\* the chapter's rows goes through; outcomes: what the embedding provider
\* does with each batch.
IndexChapterCall(chapter_id, content, force_reindex, vsUp, dbDel, outcomes) ==
    \E existing \in {IF force_reindex THEN <<>> ELSE ExistingChunks(chapter_id)},
       select \in {IF force_reindex THEN <<>> ELSE <<"db_select">>},
       chunked \in {ChunksOf(content, chapter_id)} :
    \E chunks \in {chunked.chunks} :
    \E embeddings \in {GenerateEmbeddingsBatch(
                          [i \in 1..Len(chunks) |-> chunks[i].content], outcomes, 1)},
       deleted \in {select \o <<"vs_delete", "db_delete">>},
       dbKept \in {RowsAfterDelete(chapter_id, dbDel)},
       vsKept \in {PointsAfterDelete(chapter_id, vsUp)} :
    /\ ixOps < MaxIndexOps
    /\ ixOps' = ixOps + 1
    /\ ixPrev' = [call |-> ixLast, result |-> ixResult]
    /\ ixLast' = [chapter_id |-> chapter_id, content |-> content,
                  force_reindex |-> force_reindex]
    /\ IF ~force_reindex /\ ContentUnchanged(existing, content)
          THEN /\ ixResult' = IndexResult("skipped", chapter_id, Len(existing), "")
               /\ ixCalls' = select
               /\ ixPass' = NoPass
               /\ UNCHANGED <<dbChunks, vsPoints>>
       ELSE IF ~chunked.returns
          THEN /\ ixResult' = IndexResult("no_return", chapter_id, 0, "")
               /\ ixCalls' = deleted
               /\ ixPass' = NoPass
               /\ dbChunks' = dbKept
               /\ vsPoints' = vsKept
       ELSE IF Len(chunks) = 0
          THEN /\ ixResult' = IndexResult("empty", chapter_id, 0, "")
               /\ ixCalls' = deleted
               /\ ixPass' = NoPass
               /\ dbChunks' = dbKept
               /\ vsPoints' = vsKept
       ELSE IF ~EmbeddingsMatch(embeddings, chunks)
          THEN /\ ixResult' = IndexResult("error", chapter_id, 0,
                                          "embedding_count_mismatch")
               /\ ixPass' = [embedded |-> TRUE, chunks |-> Len(chunks),
                             embeddings |-> Len(embeddings)]
               /\ ixCalls' = deleted \o CallsOf(NumBatches(Len(chunks)), "embed")
               /\ dbChunks' = dbKept
               /\ vsPoints' = vsKept
          ELSE \E rows \in {StoredRows(chunks, embeddings, ixOps + 1)} :
               /\ ixResult' = IndexResult("success", chapter_id, Len(rows), "")
               /\ ixPass' = [embedded |-> TRUE, chunks |-> Len(chunks),
                             embeddings |-> Len(embeddings)]
               /\ ixCalls' = deleted \o CallsOf(NumBatches(Len(chunks)), "embed")
                                \o Concat([i \in 1..Len(rows) |-> <<"db_add", "vs_upsert">>])
                                \o <<"db_commit">>
               /\ dbChunks' = dbKept \o rows
               /\ vsPoints' = IF vsUp
                                 THEN vsKept \cup StoredPoints(chunks, embeddings, ixOps + 1)
                                 ELSE vsKept

IndexChapter(chapter_id, content, force_reindex, vsUp, dbDel, outcomes) ==
    /\ IndexChapterCall(chapter_id, content, force_reindex, vsUp, dbDel, outcomes)
    /\ UNCHANGED <<splitVars, transVars, provVars, ragVars, chunkVars, gateVars, apiVars, refreshVars, cacheVars, passVars, allVars>>

\* The calls of the model: every document, forced or not, for the first
\* chapter under every behaviour of the vector store and of the embedding
\* provider, and one document for the second chapter.
IndexInputs ==
    {[chapter_id |-> "week-1-intro", content |-> d, force_reindex |-> f,
      vsUp |-> u, dbDel |-> b, outcomes |-> o] :
        d \in Docs, f \in BOOLEAN, u \in BOOLEAN, b \in BOOLEAN,
        o \in [1..2 -> BatchOutcomes]}
    \cup
    {[chapter_id |-> "week-2-ros2", content |-> <<"L", "NL">>, force_reindex |-> FALSE,
      vsUp |-> TRUE, dbDel |-> TRUE, outcomes |-> [i \in 1..2 |-> "ok"]]}

IndexNext ==
    \E in \in {x \in IndexInputs :
                  \A k \in 1..2 : k > NumBatches(Len(DocChunks[x.content].chunks))
                                     => x.outcomes[k] = "ok"} :
        IndexChapter(in.chapter_id, in.content, in.force_reindex, in.vsUp,
                     in.dbDel, in.outcomes)

IndexInit == IndexIdle /\ SplitIdle /\ TransIdle /\ ProviderIdle /\ RagIdle /\ ChunkIdle /\ GateIdle /\ ApiIdle /\ RefreshIdle /\ CacheIdle /\ PassIdle /\ AllIdle

SpecIndex == IndexInit /\ [][IndexNext]_vars

(***************************************************************************)
(* C1: calling index_chapter twice in a row with the same chapter, the     *)
(* same content and force_reindex = false returns 'skipped' the second     *)
(* time, and the second call makes no embedding call and no delete or      *)
(* upsert against either store.  Stated for a first call that indexed or   *)
(* skipped the content.                                                    *)
(***************************************************************************)
StoreWrites == {"embed", "vs_delete", "db_delete", "db_add", "vs_upsert", "db_commit"}

RepeatedIndexCall ==
    /\ ixOps >= 2
    /\ ixLast.chapter_id = ixPrev.call.chapter_id
    /\ ixLast.content = ixPrev.call.content
    /\ ~ixLast.force_reindex
    /\ ~ixPrev.call.force_reindex
    /\ ixPrev.result.status \in {"success", "skipped"}

C1_ReindexIdempotent ==
    RepeatedIndexCall =>
        /\ ixResult.status = "skipped"
        /\ \A i \in 1..Len(ixCalls) : ixCalls[i] \notin StoreWrites

(***************************************************************************)
(* C3: index_chapter reaches the storage step only with as many embeddings *)
(* as chunks; when the provider returned another number of vectors the     *)
(* call returns 'error' and no row and no point of that pass is stored.    *)
(***************************************************************************)
PassRows == {i \in 1..Len(dbChunks) : dbChunks[i].id[2] = ixOps}
PassPoints == {p \in vsPoints : p.id[2] = ixOps}
ReachedStorage ==
    \E i \in 1..Len(ixCalls) : ixCalls[i] \in {"db_add", "vs_upsert", "db_commit"}

C3_ChunkEmbeddingPairing ==
    /\ (ReachedStorage \/ ixResult.status = "success") =>
          /\ ixPass.embedded
          /\ ixPass.embeddings = ixPass.chunks
    /\ (ixPass.embedded /\ ixPass.embeddings # ixPass.chunks) =>
          /\ ixResult.status = "error"
          /\ ~ReachedStorage
          /\ PassRows = {}
          /\ PassPoints = {}

\* a pass of two batches whose second batch failed
C3_Witness ==
    /\ ixPass.embedded
    /\ ixPass.chunks = max_batch_size + 1
    /\ ixPass.embeddings = max_batch_size
    /\ ixResult.status = "error"

(***************************************************************************)
(* TranslationService: formatting                                          *)
(***************************************************************************)

\* str.replace(tok, repl) for a one-token tok
ReplaceTok(str, tok, repl) ==
    Concat([i \in 1..Len(str) |-> IF str[i] = tok THEN repl ELSE <<str[i]>>])

\* a token \w+ matches
IsWordTok(t) == t \in {"w", "u", "c", "T", "B", "Bu", "L", "s"}

\* re.finditer(r'```(\w+)?\n(.*?)```', content, re.DOTALL): the matches,
\* left to right, as [start, end] positions.
RECURSIVE FindCodeBlocks(_, _, _)
FindCodeBlocks(str, i, acc) ==
    IF i > Len(str) THEN acc
    ELSE LET body == IF str[i] # "F" THEN 0
                     ELSE IF i + 1 <= Len(str) /\ str[i + 1] = "NL" THEN i + 2
                     ELSE IF /\ i + 2 <= Len(str)
                             /\ IsWordTok(str[i + 1])
                             /\ str[i + 2] = "NL" THEN i + 3
                     ELSE 0
             closes == IF body = 0 THEN {} ELSE {j \in body..Len(str) : str[j] = "F"}
         IN  IF closes = {} THEN FindCodeBlocks(str, i + 1, acc)
             ELSE LET j == CHOOSE c \in closes : \A d \in closes : c <= d
                  IN  FindCodeBlocks(str, j + 1, Append(acc, [start |-> i, end |-> j]))

CodeBlocks(content) ==
    LET m == FindCodeBlocks(content, 1, <<>>)
    IN  [k \in 1..Len(m) |-> SubSeq(content, m[k].start, m[k].end)]

\* "<<<CODE_BLOCK_{0}>>>".format(k)
CodePlaceholder(k) == <<"CB0", "CB1", "CB2">>[k + 1]

\* _preserve_code_blocks: each match replaced by its placeholder
PreserveCodeBlocks(content) ==
    LET m == FindCodeBlocks(content, 1, <<>>)
        piece[k \in 0..Len(m)] ==
            IF k = 0 THEN SubSeq(content, 1, IF Len(m) = 0 THEN Len(content) ELSE m[1].start - 1)
            ELSE piece[k - 1] \o <<CodePlaceholder(k - 1)>>
                   \o SubSeq(content, m[k].end + 1,
                             IF k = Len(m) THEN Len(content) ELSE m[k + 1].start - 1)
    IN  [content |-> piece[Len(m)], code_blocks |-> CodeBlocks(content)]

\* _restore_code_blocks: every occurrence of each placeholder replaced
RECURSIVE RestoreCodeBlocks(_, _, _)
RestoreCodeBlocks(text, code_blocks, k) ==
    IF k > Len(code_blocks) THEN text
    ELSE RestoreCodeBlocks(ReplaceTok(text, CodePlaceholder(k - 1), code_blocks[k]),
                           code_blocks, k + 1)

\* _apply_technical_terms: each whole-word term, in any case, anywhere in
\* the text, replaced by the term and its transliteration
ApplyTechnicalTerms(text) == ReplaceTok(text, "T", <<"T", "SP", "TU">>)

\* _placeholder_translation: every non-blank line prefixed
PlaceholderTranslation(content) ==
    LET lines == SplitOn(content, "NL")
    IN  Join([i \in 1..Len(lines) |->
                 IF Strip(lines[i]) # <<>> THEN <<"PX", "SP">> \o lines[i] ELSE lines[i]],
             <<"NL">>)

(***************************************************************************)
(* TranslationService: the completion provider                             *)
(***************************************************************************)

\* What a faithful provider answers: prose becomes Urdu; technical terms,
\* code words, placeholders, fences and white space come back as sent.
ProviderTranslate(text) ==
    [i \in 1..Len(text) |-> CASE text[i] = "w" -> "u"
                              [] text[i] = "B" -> "Bu"
                              [] OTHER -> text[i]]

\* one call of the completion API
ProviderBehaviours == {"ok", "empty", "raise"}
ProviderAnswer(text, behaviour) ==
    IF behaviour = "ok" THEN ProviderTranslate(text) ELSE <<>>

\* content.split('\n\n')
RECURSIVE SplitParagraphs(_)
SplitParagraphs(str) ==
    LET breaks == {i \in 1..(Len(str) - 1) : str[i] = "NL" /\ str[i + 1] = "NL"}
    IN  IF breaks = {} THEN <<str>>
        ELSE LET i == CHOOSE b \in breaks : \A d \in breaks : b <= d
             IN  <<SubSeq(str, 1, i - 1)>> \o SplitParagraphs(SubSeq(str, i + 2, Len(str)))

\* Mutant: naive truncation, the text cut after its first paragraph.
PackParagraphs_Truncating(paragraphs, k, current_chunk, chunks) ==
    <<Strip(paragraphs[1])>>

\* the loop of _translate_in_chunks_gemini that packs paragraphs into chunks
RECURSIVE PackParagraphs(_, _, _, _)
PackParagraphs(paragraphs, k, current_chunk, chunks) ==
    IF k > Len(paragraphs)
    THEN IF Strip(current_chunk) # <<>> THEN Append(chunks, Strip(current_chunk)) ELSE chunks
    ELSE LET para == paragraphs[k]
         IN  IF /\ CharLen(current_chunk) + CharLen(para) + 2 > MAX_CHUNK_SIZE
                /\ current_chunk # <<>>
             THEN PackParagraphs(paragraphs, k + 1, para,
                                 Append(chunks, Strip(current_chunk)))
             ELSE PackParagraphs(paragraphs, k + 1,
                                 IF current_chunk # <<>>
                                 THEN current_chunk \o <<"NL", "NL">> \o para
                                 ELSE para,
                                 chunks)

\* the backend _translate_with_llm uses for the configured API keys
TranslationBackend(keys) ==
    IF "gemini" \in keys THEN "gemini"
    ELSE IF "openai" \in keys THEN "openai"
    ELSE IF "anthropic" \in keys THEN "anthropic"
    ELSE "placeholder"

\* the texts sent to the completion API, in order, when no call fails
TranslationRequests(content, keys) ==
    IF TranslationBackend(keys) = "placeholder" THEN <<>>
    ELSE IF TranslationBackend(keys) = "gemini" /\ CharLen(content) > MAX_CHUNK_SIZE
    THEN PackParagraphs(SplitParagraphs(content), 1, <<>>, <<>>)
    ELSE <<content>>

\* _translate_with_llm: the text returned and the completion calls made.
\* behaviours[k] is what the k-th call does; the first call that raises
\* ends the attempt and the placeholder translation is returned.
TranslateWithLlm(content, keys, behaviours) ==
    LET requests == TranslationRequests(content, keys)
        raising  == {k \in 1..Len(requests) : behaviours[k] = "raise"}
        chunked  == TranslationBackend(keys) = "gemini" /\ CharLen(content) > MAX_CHUNK_SIZE
        answers  == [k \in 1..Len(requests) |-> ProviderAnswer(requests[k], behaviours[k])]
    IN  IF TranslationBackend(keys) = "placeholder"
        THEN [text |-> PlaceholderTranslation(content), calls |-> <<>>]
        ELSE IF raising # {}
        THEN [text  |-> PlaceholderTranslation(content),
              calls |-> SubSeq(requests, 1, CHOOSE k \in raising : \A j \in raising : k <= j)]
        ELSE [text  |-> IF chunked THEN Join(answers, <<"NL", "NL">>) ELSE answers[1],
              calls |-> requests]

(***************************************************************************)
(* TranslationService: the cache and translate_to_urdu                     *)
(*                                                                         *)
(* tcCache is the translation_cache table, a set of rows; now is the clock *)
(* in days; trKeys the API keys of the environment.  trCalls holds the     *)
(* texts the last call sent to the completion API, trLast and trResult its *)
(* arguments and return value, trPrev those of the call before.            *)
(***************************************************************************)

\* the truth value Python gives an Optional[str]; "None" stands for None
Truthy(x) == x \notin {"None", ""}

\* _compute_content_hash: equal digests exactly for equal contents
ComputeContentHash(content) == <<"sha256", content>>

\* Mutant: no entry ever expires.
IsExpired_Never(entry) == FALSE

\* TranslationCache.is_expired
IsExpired(entry) == now > entry.expires_at

CacheRows(chapter_id, content_hash) ==
    {e \in tcCache : e.chapter_id = chapter_id /\ e.content_hash = content_hash}

\* get_cached_translation: the value returned (found = FALSE for None) and
\* the table afterwards.  More than one row makes scalar_one_or_none raise,
\* which is caught and answered with None.
GetCachedTranslation(chapter_id, content_hash) ==
    LET rows == CacheRows(chapter_id, content_hash)
    IN  IF Cardinality(rows) # 1
        THEN [found |-> FALSE, text |-> <<>>, cache |-> tcCache]
        ELSE LET cache_entry == CHOOSE e \in rows : TRUE
             IN  IF ~IsExpired(cache_entry)
                 THEN [found |-> TRUE, text |-> cache_entry.urdu_content, cache |-> tcCache]
                 ELSE [found |-> FALSE, text |-> <<>>, cache |-> tcCache \ {cache_entry}]

\* cache_translation: the table afterwards
CacheTranslation(cache, chapter_id, content_hash, urdu_content) ==
    {e \in cache : ~(e.chapter_id = chapter_id /\ e.content_hash = content_hash)}
      \cup {[chapter_id   |-> chapter_id,
             content_hash |-> content_hash,
             urdu_content |-> urdu_content,
             expires_at   |-> now + CACHE_DURATION_DAYS]}

\* Mutant: the result cached whether or not a chapter id was given.
CachesResult_Always(chapter_id) == TRUE

\* "if chapter_id:" before cache_translation
CachesResult(chapter_id) == Truthy(chapter_id)

\* "if cached:" -- the cached text counts only when it is a non-empty string
IsCacheHit(cached) == cached.found /\ cached.text # <<>>

\* the text translate_to_urdu computes on a miss, and the calls it makes
Translated(content, preserve_formatting, behaviours) ==
    LET preserved == IF preserve_formatting THEN PreserveCodeBlocks(content)
                     ELSE [content |-> content, code_blocks |-> <<>>]
        llm       == TranslateWithLlm(preserved.content, trKeys, behaviours)
        restored  == IF preserve_formatting /\ preserved.code_blocks # <<>>
                     THEN RestoreCodeBlocks(llm.text, preserved.code_blocks, 1)
                     ELSE llm.text
    IN  [text |-> ApplyTechnicalTerms(restored), calls |-> llm.calls]

TranslateCall(content, chapter_id, preserve_formatting, behaviours) ==
    /\ trOps < MaxTransOps
    /\ \E content_hash \in {ComputeContentHash(content)} :
       \E cached \in {IF Truthy(chapter_id)
                      THEN GetCachedTranslation(chapter_id, content_hash)
                      ELSE [found |-> FALSE, text |-> <<>>, cache |-> tcCache]} :
          IF Truthy(chapter_id) /\ IsCacheHit(cached)
          THEN /\ trResult' = [text |-> cached.text, cache_hit |-> TRUE]
               /\ trCalls' = <<>>
               /\ tcCache' = cached.cache
          ELSE \E t \in {Translated(content, preserve_formatting, behaviours)} :
               /\ trResult' = [text |-> t.text, cache_hit |-> FALSE]
               /\ trCalls' = t.calls
               /\ tcCache' = IF CachesResult(chapter_id)
                             THEN CacheTranslation(cached.cache, chapter_id,
                                                   content_hash, t.text)
                             ELSE cached.cache
    /\ trLast' = [content |-> content, chapter_id |-> chapter_id,
                  preserve_formatting |-> preserve_formatting,
                  behaviours |-> behaviours, at |-> now]
    /\ trPrev' = [call |-> trLast, result |-> trResult]
    /\ trOps' = trOps + 1
    /\ UNCHANGED <<now, trTicks, trKeys>>

TranslateToUrdu(content, chapter_id, preserve_formatting, behaviours) ==
    /\ TranslateCall(content, chapter_id, preserve_formatting, behaviours)
    /\ UNCHANGED <<splitVars, indexVars, provVars, ragVars, chunkVars, gateVars, apiVars, refreshVars, cacheVars, passVars, allVars>>

\* the chapters table: the content of each chapter on record
ChapterContent == [c \in {"week-1-intro"} |-> <<"w", "NL", "F", "T", "NL", "c", "SP", "T", "NL", "F">>]

\* refresh_chapter_translation(chapter_id), the whole handler: 404 for a
\* chapter that is not on record, else translate_to_urdu on its content
RefreshChapterTranslation(chapter_id, behaviours) ==
    /\ IF chapter_id \notin DOMAIN ChapterContent
          THEN /\ trOps < MaxTransOps
               /\ rfLast' = [chapter_id |-> chapter_id, op |-> 0, status_code |-> 404,
                             urdu_content |-> <<>>]
               /\ UNCHANGED transVars
          ELSE /\ TranslateCall(ChapterContent[chapter_id], chapter_id, TRUE, behaviours)
               /\ rfLast' = [chapter_id |-> chapter_id, op |-> trOps', status_code |-> 200,
                             urdu_content |-> trResult'.text]
    /\ UNCHANGED <<splitVars, indexVars, provVars, ragVars, chunkVars, gateVars, apiVars, cacheVars, passVars, allVars>>

\* time passes: a whole cache period, or a day more
Tick ==
    /\ trTicks < MaxTicks
    /\ \E days \in {CACHE_DURATION_DAYS, CACHE_DURATION_DAYS + 1} : now' = now + days
    /\ trTicks' = trTicks + 1
    /\ UNCHANGED <<tcCache, trKeys, trResult, trCalls, trLast, trPrev, trOps>>
    /\ UNCHANGED <<splitVars, indexVars, provVars, ragVars, chunkVars, gateVars, apiVars, refreshVars, cacheVars, passVars, allVars>>

\* Contents: an empty chapter; a sentence with a technical term; a
\* sentence followed by a python code block ("```python", "import json",
\* "```"); three long paragraphs, more than MAX_CHUNK_SIZE characters.
EmptyContent == <<>>
ProseContent == <<"w", "SP", "T">>
CodeContent == <<"w", "NL", "F", "T", "NL", "c", "SP", "T", "NL", "F">>
LongContent == <<"B", "NL", "NL", "B", "NL", "NL", "B">>

\* the API keys the service may be constructed with
KeySets == {{}, {"anthropic"}, {"openai", "anthropic"}, {"gemini", "openai", "anthropic"}}

TranslateInputs ==
    {[content |-> EmptyContent, chapter_id |-> "week-1-intro",
      preserve_formatting |-> TRUE, behaviours |-> <<"ok", "ok">>],
     [content |-> CodeContent, chapter_id |-> "week-1-intro",
      preserve_formatting |-> FALSE, behaviours |-> <<"ok", "ok">>]}
    \cup [content : {CodeContent}, chapter_id : {"week-1-intro"},
          preserve_formatting : {TRUE},
          behaviours : {<<"ok", "ok">>, <<"empty", "ok">>}]
    \cup [content : {CodeContent}, chapter_id : {"None"},
          preserve_formatting : {TRUE},
          behaviours : {<<"ok", "ok">>, <<"raise", "ok">>}]
    \cup [content : {LongContent}, chapter_id : {"week-1-intro"},
          preserve_formatting : {TRUE},
          behaviours : {<<"ok", "ok">>, <<"ok", "raise">>}]
    \cup [content : {ProseContent}, chapter_id : {""},
          preserve_formatting : {TRUE},
          behaviours : {<<"ok", "ok">>}]

\* behaviours of calls that are never made are immaterial
MaterialBehaviours(in) ==
    \A k \in 1..2 :
        k > Len(TranslationRequests(
                  IF in.preserve_formatting THEN PreserveCodeBlocks(in.content).content
                  ELSE in.content, trKeys))
            => in.behaviours[k] = "ok"

TransInit ==
    /\ tcCache = {}
    /\ now = 0
    /\ trTicks = 0
    /\ trKeys \in KeySets
    /\ trResult = NoTranslation
    /\ trCalls = <<>>
    /\ trLast = NoTranslate
    /\ trPrev = [call |-> NoTranslate, result |-> NoTranslation]
    /\ trOps = 0
    /\ SplitIdle /\ IndexIdle /\ ProviderIdle /\ RagIdle /\ ChunkIdle /\ GateIdle /\ ApiIdle /\ RefreshIdle /\ CacheIdle /\ PassIdle /\ AllIdle

TransNext ==
    \/ \E in \in TranslateInputs :
          /\ MaterialBehaviours(in)
          /\ TranslateToUrdu(in.content, in.chapter_id, in.preserve_formatting,
                             in.behaviours)
    \/ \E chapter_id \in {"week-1-intro", "week-9-missing"} :
          RefreshChapterTranslation(chapter_id, <<"ok", "ok">>)
    \/ Tick

SpecTranslate == TransInit /\ [][TransNext]_vars

(***************************************************************************)
(* C4.  Translation cache round trip: when translate_to_urdu(content,      *)
(* chapter_id) with a non-empty chapter_id has returned and the next call  *)
(* has the same content and chapter_id and is made before the entry        *)
(* expires, that call returns cache_hit = true and the text the first call *)
(* returned, and sends nothing to the completion provider.                 *)
(***************************************************************************)
RepeatedTranslateCall ==
    /\ trOps >= 2
    /\ Truthy(trLast.chapter_id)
    /\ trLast.chapter_id = trPrev.call.chapter_id
    /\ trLast.content = trPrev.call.content
    /\ trLast.at <= (IF trPrev.result.cache_hit THEN trPrev.call.at
                     ELSE trPrev.call.at + CACHE_DURATION_DAYS)

C4_CacheRoundTrip ==
    RepeatedTranslateCall =>
        /\ trResult.cache_hit
        /\ trResult.text = trPrev.result.text
        /\ trCalls = <<>>

(***************************************************************************)
(* C5.  Code is never altered by translation: when translate_to_urdu runs  *)
(* with preserve_formatting = true and the provider returns what it is     *)
(* sent for placeholders, every fenced code block of the input occurs      *)
(* token for token in the output.                                          *)
(***************************************************************************)
Occurs(block, text) ==
    \E i \in 1..(Len(text) - Len(block) + 1) :
        SubSeq(text, i, i + Len(block) - 1) = block

FaithfulTranslateCall ==
    /\ trOps >= 1
    /\ trLast.preserve_formatting
    /\ ~trResult.cache_hit
    /\ \A k \in 1..Len(trLast.behaviours) : trLast.behaviours[k] = "ok"

C5_CodeBlocksVerbatim ==
    FaithfulTranslateCall =>
        \A k \in 1..Len(CodeBlocks(trLast.content)) :
            Occurs(CodeBlocks(trLast.content)[k], trResult.text)

(***************************************************************************)
(* C10.  Ad hoc content is never cached: a translate_to_urdu call made     *)
(* without a chapter_id (None or the empty string) leaves the translation  *)
(* cache with exactly the entries it had, whether the provider answers,    *)
(* fails or the placeholder translation is used.                           *)
(***************************************************************************)
AdHocCall == trOps' = trOps + 1 /\ ~Truthy(trLast'.chapter_id)

C10_AdHocNeverCached == [][AdHocCall => tcCache' = tcCache]_vars

\* an ad hoc call has translated content whose translation for a chapter is
\* in the cache, and the cache still holds just that entry
C10_Witness ==
    /\ trOps >= 2
    /\ ~Truthy(trLast.chapter_id)
    /\ ~trResult.cache_hit
    /\ trResult.text # <<>>
    /\ Cardinality(tcCache) = 1
    /\ \E e \in tcCache : e.content_hash = ComputeContentHash(trLast.content)

(***************************************************************************)
(* LLMProvider: selection of the backend                                   *)
(***************************************************************************)
Backends == {"gemini", "anthropic", "openai"}

\* _get_completion_client; "none" stands for None
GetCompletionClient ==
    IF LLM_PROVIDER = "gemini" /\ "gemini" \in pvClients THEN "gemini"
    ELSE IF LLM_PROVIDER = "anthropic" /\ "anthropic" \in pvClients THEN "anthropic"
    ELSE IF LLM_PROVIDER = "openai" /\ "openai" \in pvClients THEN "openai"
    ELSE IF LLM_PROVIDER = "auto"
    THEN IF "gemini" \in pvClients /\ pvGeminiAvailable THEN "gemini"
         ELSE IF "anthropic" \in pvClients THEN "anthropic"
         ELSE IF "openai" \in pvClients THEN "openai"
         ELSE "none"
    ELSE "none"

\* _get_embedding_client
GetEmbeddingClient ==
    IF EMBEDDING_PROVIDER = "gemini" /\ "gemini" \in pvClients THEN "gemini"
    ELSE IF EMBEDDING_PROVIDER = "openai" /\ "openai" \in pvClients THEN "openai"
    ELSE IF EMBEDDING_PROVIDER = "auto"
    THEN IF "gemini" \in pvClients /\ pvGeminiAvailable THEN "gemini"
         ELSE IF "openai" \in pvClients THEN "openai"
         ELSE "none"
    ELSE "none"

SelectCompletion ==
    /\ pvSelected' = [capability |-> "completion", client |-> GetCompletionClient]
    /\ UNCHANGED <<pvClients, pvGeminiAvailable, LLM_PROVIDER, EMBEDDING_PROVIDER>>
    /\ UNCHANGED <<splitVars, indexVars, transVars, ragVars, chunkVars, gateVars, apiVars, refreshVars, cacheVars, passVars, allVars>>

SelectEmbedding ==
    /\ pvSelected' = [capability |-> "embedding", client |-> GetEmbeddingClient]
    /\ UNCHANGED <<pvClients, pvGeminiAvailable, LLM_PROVIDER, EMBEDDING_PROVIDER>>
    /\ UNCHANGED <<splitVars, indexVars, transVars, ragVars, chunkVars, gateVars, apiVars, refreshVars, cacheVars, passVars, allVars>>

\* Every environment: the clients whose key is set and whose module loads,
\* whether Gemini's model was built, and the two settings ("azure" is a
\* value the code does not know).
ProviderInit ==
    /\ pvClients \in SUBSET Backends
    /\ pvGeminiAvailable \in {b \in BOOLEAN : b => "gemini" \in pvClients}
    /\ LLM_PROVIDER \in {"auto", "gemini", "anthropic", "openai", "azure"}
    /\ EMBEDDING_PROVIDER \in {"auto", "gemini", "openai", "azure"}
    /\ NotSelected
    /\ SplitIdle /\ IndexIdle /\ TransIdle /\ RagIdle /\ ChunkIdle /\ GateIdle /\ ApiIdle /\ RefreshIdle /\ CacheIdle /\ PassIdle /\ AllIdle

ProviderNext == SelectCompletion \/ SelectEmbedding

SpecProvider == ProviderInit /\ [][ProviderNext]_vars

(***************************************************************************)
(* C7.  Provider selection: for each capability and every combination of   *)
(* configured backends and preferred-provider setting, selection returns   *)
(* the highest-priority configured backend (the preferred one first, then  *)
(* Gemini > Anthropic > OpenAI for completion, Gemini > OpenAI for         *)
(* embedding), and returns "none available" only when no backend for the   *)
(* capability is configured.                                               *)
(***************************************************************************)
\* the backends that can serve a capability in this environment
Configured(capability) ==
    {b \in pvClients :
        /\ b = "gemini" => pvGeminiAvailable
        /\ capability = "embedding" => b # "anthropic"}

DefaultOrder(capability) ==
    IF capability = "completion" THEN <<"gemini", "anthropic", "openai">>
    ELSE <<"gemini", "openai">>

Preferred(capability) ==
    IF capability = "completion" THEN LLM_PROVIDER ELSE EMBEDDING_PROVIDER

\* the first configured backend, the preferred one taken first
HighestPriority(capability) ==
    LET order == <<Preferred(capability)>> \o DefaultOrder(capability)
        at    == {i \in 1..Len(order) : order[i] \in Configured(capability)}
    IN  IF at = {} THEN "none"
        ELSE order[CHOOSE i \in at : \A j \in at : i <= j]

C7_ProviderSelection ==
    pvSelected.capability # "none" =>
        /\ pvSelected.client = HighestPriority(pvSelected.capability)
        /\ pvSelected.client = "none" => Configured(pvSelected.capability) = {}

(***************************************************************************)
(* QdrantVectorStore.search                                                *)
(***************************************************************************)
Point(id, score, chapter_id, heading, content) ==
    [id |-> id, score |-> score,
     payload |-> [chapter_id |-> chapter_id, heading |-> heading, content |-> content]]

\* points that resemble the query too little
LowPoints ==
    {Point(3, 49, "week-1-intro", "Topics", "topics carry messages"),
     Point(4, 12, "week-2-ros2", "Actions", "actions are long running")}

\* points that resemble it enough, more than top_k of them; one has no
\* content, two share their source
HighPoints ==
    {Point(1, 91, "week-1-intro", "Nodes", "a node is a process"),
     Point(2, 50, "week-1-intro", "", "nodes talk over topics"),
     Point(5, 77, "week-2-ros2", "", "ros2 run starts a node"),
     Point(6, 64, "week-1-intro", "", "each node has a name"),
     Point(7, 80, "week-1-intro", "Outline", ""),
     Point(8, 55, "week-2-ros2", "Launch", "launch files start nodes"),
     Point(9, 60, "week-2-ros2", "", "nodes can be composed")}

Collections == {{}, LowPoints, LowPoints \cup HighPoints}

\* the points in descending order of score
RECURSIVE ByScore(_)
ByScore(points) ==
    IF points = {} THEN <<>>
    ELSE LET best == CHOOSE p \in points : \A q \in points : q.score <= p.score
         IN  <<best>> \o ByScore(points \ {best})

\* Qdrant's query_points under cosine distance: the points that match the
\* filter and score at least score_threshold when one is given, most
\* similar first, at most limit of them
QueryPoints(limit, query_filter, threshold) ==
    LET matching == {p \in rgPoints :
                        /\ query_filter.given => p.payload.chapter_id = query_filter.value
                        /\ threshold.given => p.score >= threshold.value}
    IN  SubSeq(ByScore(matching), 1, Min(limit, Cardinality(matching)))

\* QdrantVectorStore.search; store tells whether Qdrant is there, is not,
\* or fails on the request
StoreBehaviours == {"ok", "unavailable", "raise"}
Search(limit, filter_conditions, threshold, store) ==
    IF store # "ok" THEN <<>>
    ELSE QueryPoints(limit, filter_conditions, threshold)

(***************************************************************************)
(* RAGService.query                                                        *)
(***************************************************************************)

\* what a call on a backend's client gives: "value", "none" for None or an
\* empty answer, "raise".  The Gemini client answers None when it is not
\* available; the Gemini and Anthropic clients catch what their API raises.
CallBehaviours == {"value", "none", "raise"}
ClientOutcome(backend, behaviour) ==
    IF backend = "gemini" /\ ~pvGeminiAvailable THEN "none"
    ELSE IF behaviour = "raise" /\ backend \in {"gemini", "anthropic"} THEN "none"
    ELSE behaviour

\* llm_provider.generate_embedding / complete / complete_with_context: one
\* call on the selected client, None without a call when there is none
ProviderCall(capability, client, behaviour) ==
    IF client = "none" THEN [outcome |-> "none", calls |-> <<>>]
    ELSE [outcome |-> ClientOutcome(client, behaviour),
          calls   |-> <<[capability |-> capability, backend |-> client,
                         outcome |-> ClientOutcome(client, behaviour)]>>]

\* a source reference: chapter_id, or "chapter_id - heading"
Source(payload) == [chapter_id |-> payload.chapter_id, heading |-> payload.heading]
InSeq(x, seq) == \E i \in 1..Len(seq) : seq[i] = x

\* _extract_context
RECURSIVE ExtractContext(_, _, _, _)
ExtractContext(search_results, k, context_chunks, sources) ==
    IF k > Len(search_results) THEN [context_chunks |-> context_chunks, sources |-> sources]
    ELSE LET payload == search_results[k].payload
             source  == Source(payload)
         IN  IF payload.content = ""
             THEN ExtractContext(search_results, k + 1, context_chunks, sources)
             ELSE ExtractContext(search_results, k + 1,
                      Append(context_chunks, [prefix |-> "", text |-> payload.content]),
                      IF /\ (source.chapter_id # "" \/ source.heading # "")
                         /\ ~InSeq(source, sources)
                      THEN Append(sources, source) ELSE sources)

\* the score_threshold argument query passes to search
SearchThreshold_None == [given |-> FALSE, value |-> 0]
SearchThreshold == [given |-> TRUE, value |-> score_threshold]

\* An answer is the sequence of the pieces of text it is made of; it is
\* the empty string when no piece has a character.
Completion == <<"A node is a process that performs computation.">>
IsEmptyText(text) == \A i \in 1..Len(text) : text[i] = ""

\* Mutant: the provider's answer returned as it is.
GenerateAnswer_Unchecked(outcome) == IF outcome = "value" THEN Completion ELSE <<>>

\* _generate_answer: the completion, or the apology when it is empty or the
\* call raised
GenerateAnswer(outcome) ==
    IF outcome = "value" THEN Completion
    ELSE <<"I apologize, but I'm unable to generate a response at this time.">>

\* _no_context_response: the completion, or the suggestions
NoContextResponse(query, outcome) ==
    IF outcome = "value" THEN Completion
    ELSE <<"I couldn't find specific information in the textbook content related to your question: ",
           query, "Here are some suggestions:">>

\* _error_response
ErrorResponse(error_message, latency) ==
    [raised |-> FALSE,
     answer |-> <<"An error occurred while processing your question. Please try again. Error: ",
                  error_message>>,
     sources |-> <<>>, latency |-> latency, context_count |-> 0, model |-> "error"]

\* Mutant: an empty embedding taken for a vector.
EmbeddingFailed_Never(outcome) == FALSE

\* "if not query_embedding": None or an empty list
EmbeddingFailed(outcome) == outcome = "none"

\* the body of query's try block: the result, the provider calls made,
\* whether the vector store was searched and the context handed to the
\* completion provider; raised with the message of the exception (str(e),
\* the text the failing client put in it) when one escapes a step
QueryBody(q) ==
    LET embedding == ProviderCall("embedding", GetEmbeddingClient, q.embedding)
        filter    == [given |-> Truthy(q.chapter_id), value |-> q.chapter_id]
        results   == Search(top_k, filter, SearchThreshold, q.store)
        extracted == ExtractContext(results, 1, <<>>, <<>>)
        chunks    == IF Truthy(q.selected_text) /\ q.context_mode = "selection"
                     THEN <<[prefix |-> "Selected text: ", text |-> q.selected_text]>>
                            \o extracted.context_chunks
                     ELSE extracted.context_chunks
        completion == ProviderCall("completion", GetCompletionClient, q.completion)
        answer    == IF chunks # <<>> THEN GenerateAnswer(completion.outcome)
                     ELSE NoContextResponse(q.query, completion.outcome)
    IN  IF embedding.outcome = "raise"
        THEN [raised |-> TRUE, error |-> q.error_text, searched |-> FALSE,
              calls |-> embedding.calls, context |-> <<>>]
        ELSE IF EmbeddingFailed(embedding.outcome)
        THEN [raised |-> FALSE, searched |-> FALSE,
              result |-> ErrorResponse("Failed to generate query embedding", q.elapsed),
              calls |-> embedding.calls, context |-> <<>>]
        ELSE [raised |-> FALSE, searched |-> TRUE,
              result |-> [raised |-> FALSE, answer |-> answer,
                          sources |-> extracted.sources, latency |-> q.elapsed,
                          context_count |-> Len(chunks),
                          model |-> IF IsEmptyText(answer) THEN "none" ELSE "openai"],
              calls |-> embedding.calls \o completion.calls, context |-> chunks]

\* query: the try block, and the except clause that turns an exception into
\* the error response
QueryResult(q) ==
    LET body == QueryBody(q)
    IN  IF body.raised THEN ErrorResponse(body.error, q.elapsed) ELSE body.result

ServiceQuery(q) ==
    /\ rgOps < MaxQueries
    /\ \E body \in {QueryBody(q)} :
          /\ rgResult' = IF body.raised THEN ErrorResponse(body.error, q.elapsed)
                         ELSE body.result
          /\ rgCalls' = body.calls
          /\ rgContext' = body.context
    /\ rgLast' = q
    /\ rgOps' = rgOps + 1
    /\ UNCHANGED rgPoints

Query(q) ==
    /\ ServiceQuery(q)
    /\ UNCHANGED <<splitVars, indexVars, transVars, provVars, chunkVars, gateVars, apiVars, refreshVars, cacheVars, passVars, allVars>>

\* what a failing client writes in its exception
ErrorTexts == {"Connection error.",
               "Incorrect API key provided: sk-proj-Ab12. You can find your API key at https://platform.openai.com/account/api-keys."}

Environments ==
    [embedding : CallBehaviours, store : StoreBehaviours, completion : CallBehaviours,
     elapsed : {2}, error_text : ErrorTexts]

QueryInputs ==
    {r @@ e : r \in [query : {"what is a node?"}, context_mode : {"general", "selection"},
                     selected_text : {"None", "a node is a process"},
                     chapter_id : {"None", "week-1-intro"}],
              e \in {x \in Environments :
                        x.embedding # "raise" => x.error_text = "Connection error."}}

(***************************************************************************)
(* api/rag.py: POST /query                                                 *)
(***************************************************************************)

\* RAGQueryRequest: query of 1 to 2000 characters, context_mode any string,
\* selected_text optional
ValidRequest(request) == request.query # ""

\* Mutant: only a missing selected_text counts, an empty one passes.
SelectedTextMissing_NoneOnly(request) ==
    request.context_mode = "selection" /\ request.selected_text = "None"

\* lines 61-62: selection mode without a selected text
SelectedTextMissing(request) ==
    request.context_mode = "selection" /\ ~Truthy(request.selected_text)

\* the calls made outside the process for one run of RAGService.query
ExternalCalls(body) ==
    LET embeds      == SelectSeq(body.calls, LAMBDA c : c.capability = "embedding")
        completions == SelectSeq(body.calls, LAMBDA c : c.capability = "completion")
    IN  [i \in 1..Len(embeds) |-> "embedding"]
           \o (IF body.searched THEN <<"search">> ELSE <<>>)
           \o [i \in 1..Len(completions) |-> "completion"]

HttpError(status_code, detail) ==
    [status_code |-> status_code, detail |-> detail, answer |-> <<>>, sources |-> <<>>,
     latency |-> 0]

\* query_rag(request), the whole handler; env is what the providers and the
\* vector store do during it
QueryRag(request, env) ==
    /\ apOps < MaxRequests
    /\ apOps' = apOps + 1
    /\ apRequest' = request @@ env
    /\ IF ~ValidRequest(request)
          THEN /\ apResponse' = HttpError(422, <<"query: String should have at least 1 character">>)
               /\ apCalls' = <<>>
               /\ UNCHANGED ragVars
       ELSE IF SelectedTextMissing(request)
          THEN /\ apResponse' = HttpError(400,
                     <<"selected_text", " is required when context_mode is 'selection'">>)
               /\ apCalls' = <<>>
               /\ UNCHANGED ragVars
          ELSE /\ ServiceQuery(request @@ env)
               /\ apCalls' = ExternalCalls(QueryBody(request @@ env))
               /\ apResponse' =
                     IF rgResult'.raised
                        THEN HttpError(500, <<"Failed to process query">>)
                     ELSE IF rgResult'.model = "error"
                        THEN HttpError(500, rgResult'.answer)
                        ELSE [status_code |-> 200, detail |-> <<>>,
                              answer |-> rgResult'.answer, sources |-> rgResult'.sources,
                              latency |-> rgResult'.latency]
    /\ UNCHANGED <<splitVars, indexVars, transVars, provVars, chunkVars, gateVars, refreshVars, cacheVars, passVars, allVars>>

Requests ==
    [query : {"what is a node?", ""}, context_mode : {"general", "selection", "summary"},
     selected_text : {"None", "", "a node is a process"}, chapter_id : {"None"}]

ApiEnvironments ==
    {x \in Environments : x.store # "unavailable" /\ x.completion # "raise"
                             /\ x.error_text = "Connection error."}

\* the environments the service is run in: every backend there; Gemini
\* missing; nothing configured; Gemini preferred but not available; only
\* Anthropic; OpenAI preferred with only Gemini there
RagEnvironments ==
    {[clients |-> Backends, gemini |-> TRUE, llm |-> "auto", embedding |-> "auto"],
     [clients |-> {"anthropic", "openai"}, gemini |-> FALSE, llm |-> "auto", embedding |-> "auto"],
     [clients |-> {}, gemini |-> FALSE, llm |-> "auto", embedding |-> "auto"],
     [clients |-> {"gemini", "openai"}, gemini |-> FALSE, llm |-> "gemini", embedding |-> "gemini"],
     [clients |-> {"anthropic"}, gemini |-> FALSE, llm |-> "auto", embedding |-> "auto"],
     [clients |-> {"gemini"}, gemini |-> TRUE, llm |-> "openai", embedding |-> "auto"]}

RagInit ==
    /\ \E env \in RagEnvironments :
          /\ pvClients = env.clients
          /\ pvGeminiAvailable = env.gemini
          /\ LLM_PROVIDER = env.llm
          /\ EMBEDDING_PROVIDER = env.embedding
    /\ NotSelected
    /\ rgPoints \in Collections
    /\ NotQueried
    /\ SplitIdle /\ IndexIdle /\ TransIdle /\ ChunkIdle /\ GateIdle /\ ApiIdle /\ RefreshIdle /\ CacheIdle /\ PassIdle /\ AllIdle

RagNext == \E q \in QueryInputs : Query(q)

SpecRag == RagInit /\ [][RagNext]_vars

\* the service behind the endpoint, in the same environments
ApiInit == RagInit

ApiNext == \E request \in Requests, env \in ApiEnvironments : QueryRag(request, env)

SpecApi == ApiInit /\ [][ApiNext]_vars

(***************************************************************************)
(* C6.  Provider failover: whenever the call on the selected backend       *)
(* raises or returns nothing and another backend for that capability is    *)
(* configured, the caller makes the call again on another configured       *)
(* backend; the degraded response comes only after every configured        *)
(* backend has been tried.                                                 *)
(***************************************************************************)
OtherConfigured(call) == Configured(call.capability) \ {call.backend}

C6_ProviderFailover ==
    rgOps > 0 =>
        \A i \in 1..Len(rgCalls) :
            (rgCalls[i].outcome # "value" /\ OtherConfigured(rgCalls[i]) # {}) =>
                \E j \in (i + 1)..Len(rgCalls) :
                    /\ rgCalls[j].capability = rgCalls[i].capability
                    /\ rgCalls[j].backend \in OtherConfigured(rgCalls[i])

(***************************************************************************)
(* C8.  RAG query never raises: whatever the embedding provider, the       *)
(* completion provider and the vector store do, query returns a result     *)
(* with a non-empty answer, a sources list and a latency; with no chunk in *)
(* the vector store a general-mode query returns a non-empty answer and    *)
(* an empty sources list.                                                  *)
(***************************************************************************)
C8_QueryNeverRaises ==
    rgOps > 0 =>
        /\ ~rgResult.raised
        /\ ~IsEmptyText(rgResult.answer)
        /\ {"sources", "latency"} \subseteq DOMAIN rgResult
        /\ (rgPoints = {} /\ rgLast.context_mode = "general") => rgResult.sources = <<>>

\* a general-mode query on an empty store whose embedding succeeded and
\* whose completion failed
C8_Witness ==
    /\ rgOps > 0
    /\ rgPoints = {}
    /\ rgLast.context_mode = "general"
    /\ Len(rgCalls) = 2
    /\ rgCalls[1].outcome = "value"
    /\ rgCalls[2].outcome # "value"
    /\ ~IsEmptyText(rgResult.answer)
    /\ rgResult.sources = <<>>

(***************************************************************************)
(* C9.  Score-threshold enforcement: no point of the collection whose      *)
(* similarity is below score_threshold gives a context chunk passed to the *)
(* completion provider or an entry of the returned sources.                *)
(***************************************************************************)
ChunkOf(p) == [prefix |-> "", text |-> p.payload.content]

C9_ScoreThreshold ==
    rgOps > 0 =>
        \A p \in rgPoints :
            p.score < score_threshold =>
                /\ ~InSeq(ChunkOf(p), rgContext)
                /\ ~InSeq(Source(p.payload), rgResult.sources)

\* the store holds points below the threshold and the context holds the
\* point whose score is exactly the threshold
C9_Witness ==
    /\ rgOps > 0
    /\ \E p \in rgPoints : p.score < score_threshold
    /\ \E p \in rgPoints : p.score = score_threshold /\ InSeq(ChunkOf(p), rgContext)
    /\ rgResult.sources # <<>>

(***************************************************************************)
(* TranslationService._translate_in_chunks_gemini, one await a step        *)
(***************************************************************************)
\* a long paragraph, a short one, an indented long one, a blank one
ParagraphChoices == {<<"B">>, <<"w">>, <<"SP", "B">>, <<"SP">>}

RECURSIVE ParagraphLists(_)
ParagraphLists(n) ==
    IF n = 0 THEN {<<>>}
    ELSE {Append(ps, p) : ps \in ParagraphLists(n - 1), p \in ParagraphChoices}

\* the contents _translate_with_gemini hands over: longer than MAX_CHUNK_SIZE
LongContents ==
    {c \in {Join(ps, <<"NL", "NL">>) :
               ps \in UNION {ParagraphLists(n) : n \in 1..MaxParagraphs}} :
        CharLen(c) > MAX_CHUNK_SIZE}

ChunkInit ==
    /\ ckContent \in LongContents
    /\ ckPc = "begin"
    /\ NotChunking
    /\ SplitIdle /\ IndexIdle /\ TransIdle /\ ProviderIdle /\ RagIdle /\ GateIdle /\ ApiIdle /\ RefreshIdle /\ CacheIdle /\ PassIdle /\ AllIdle

\* lines 360-375: the paragraphs packed into sub-chunks
ChunkBuild ==
    /\ ckPc = "begin"
    /\ ckChunks' = PackParagraphs(SplitParagraphs(ckContent), 1, <<>>, <<>>)
    /\ ckPc' = "loop"
    /\ UNCHANGED <<ckContent, ckSent, ckDone, ckOutput>>
    /\ UNCHANGED <<splitVars, indexVars, transVars, provVars, ragVars, gateVars, apiVars, refreshVars, cacheVars, passVars, allVars>>

\* line 383, the call: the next sub-chunk goes to the provider
ChunkSend ==
    /\ ckPc = "loop"
    /\ Len(ckSent) < Len(ckChunks)
    /\ ckSent' = Append(ckSent, ckChunks[Len(ckSent) + 1])
    /\ ckPc' = "await"
    /\ UNCHANGED <<ckContent, ckChunks, ckDone, ckOutput>>
    /\ UNCHANGED <<splitVars, indexVars, transVars, provVars, ragVars, gateVars, apiVars, refreshVars, cacheVars, passVars, allVars>>

\* line 383, the await: its translation returns, or the call raises and
\* _translate_with_llm answers with the placeholder translation
ChunkReturn ==
    /\ ckPc = "await"
    /\ \E behaviour \in ProviderBehaviours :
          IF behaviour = "raise"
          THEN /\ ckOutput' = PlaceholderTranslation(ckContent)
               /\ ckPc' = "raised"
               /\ UNCHANGED ckDone
          ELSE /\ ckDone' = Append(ckDone, ProviderAnswer(ckSent[Len(ckSent)], behaviour))
               /\ ckPc' = "loop"
               /\ UNCHANGED ckOutput
    /\ UNCHANGED <<ckContent, ckChunks, ckSent>>
    /\ UNCHANGED <<splitVars, indexVars, transVars, provVars, ragVars, gateVars, apiVars, refreshVars, cacheVars, passVars, allVars>>

\* line 387: the translations joined
ChunkJoin ==
    /\ ckPc = "loop"
    /\ Len(ckSent) = Len(ckChunks)
    /\ ckOutput' = Join(ckDone, <<"NL", "NL">>)
    /\ ckPc' = "done"
    /\ UNCHANGED <<ckContent, ckChunks, ckSent, ckDone>>
    /\ UNCHANGED <<splitVars, indexVars, transVars, provVars, ragVars, gateVars, apiVars, refreshVars, cacheVars, passVars, allVars>>

ChunkNext == ChunkBuild \/ ChunkSend \/ ChunkReturn \/ ChunkJoin

SpecChunks == ChunkInit /\ [][ChunkNext]_vars

(***************************************************************************)
(* C11.  Chunked translation covers every paragraph exactly once and in    *)
(* order.  As stated: the paragraphs of the sub-chunks, taken in order,    *)
(* are the paragraphs of the content.  As the code has it: the same up to  *)
(* the white space around a paragraph, blank paragraphs left out; the      *)
(* sub-chunk k+1 is sent only once the translation of sub-chunk k has      *)
(* returned, and the output is the translations joined in that order.      *)
(***************************************************************************)
\* the paragraphs of the sub-chunks, in order
ChunkParagraphs ==
    Concat([k \in 1..Len(ckChunks) |-> SplitParagraphs(ckChunks[k])])

\* paragraphs without the white space around them, blank ones left out
NonBlank(paragraphs) ==
    SelectSeq([i \in 1..Len(paragraphs) |-> Strip(paragraphs[i])],
              LAMBDA para : para # <<>>)

LookedUp == CacheRows(trLast'.chapter_id, ComputeContentHash(trLast'.content))

ChapterCall == trOps' = trOps + 1 /\ Truthy(trLast'.chapter_id)

C12_ExpiredNeverServed ==
    [][ChapterCall =>
          /\ \A e \in LookedUp :
                now > e.expires_at => ~trResult'.cache_hit /\ e \notin tcCache'
          /\ trResult'.cache_hit =>
                \E e \in LookedUp :
                    ~(now > e.expires_at) /\ trResult'.text = e.urdu_content]_vars

\* the same content is translated again for the chapter after its entry
\* has expired: no hit, and the cache holds only the new entry
C12_Witness ==
    /\ trOps >= 2
    /\ Truthy(trLast.chapter_id)
    /\ trLast.chapter_id = trPrev.call.chapter_id
    /\ trLast.content = trPrev.call.content
    /\ trPrev.result.text # <<>>
    /\ trLast.at > trPrev.call.at + CACHE_DURATION_DAYS
    /\ ~trResult.cache_hit
    /\ \A e \in CacheRows(trLast.chapter_id, ComputeContentHash(trLast.content)) :
          e.expires_at = trLast.at + CACHE_DURATION_DAYS

(***************************************************************************)
(* QdrantVectorStore: the gateway operations.  rgPoints is the collection. *)
(***************************************************************************)

\* _ensure_initialized and _ensure_collection: the client and the
\* collection after them.  A constructor that raises leaves no client; a
\* server that does not answer leaves the client and no collection.
EnsureInitialized ==
    IF qdInitialized THEN [client |-> qdClient, collection |-> qdCollection]
    ELSE IF ~qdCtorOk THEN [client |-> "None", collection |-> qdCollection]
    ELSE [client |-> "client", collection |-> qdCollection \/ qdReachable]

\* the attempt fails when QdrantClient(...) raises or when get_collections
\* or create_collection raises because the server does not answer
AttemptFails == ~qdCtorOk \/ ~qdReachable

\* the body of _ensure_initialized runs only while _initialized is False
AttemptAfter ==
    IF qdInitialized THEN qdAttempt
    ELSE [count |-> qdAttempt.count + 1, failed |-> AttemptFails]

\* what becomes of a request: not made without a client; raising when the
\* server does not answer, the collection is missing or the request fails
RequestOutcome(init, fails) ==
    IF init.client = "None" THEN "unavailable"
    ELSE IF ~qdReachable \/ ~init.collection \/ fails THEN "raise"
    ELSE "ok"

\* Mutant: upsert_vectors reporting success whatever happened.
UpsertReturn_Optimistic(outcome) == TRUE

\* upsert_vectors: True after the upsert, False from the availability test
\* and from the except clause
UpsertReturn(outcome) == outcome = "ok"

\* delete_by_filter likewise
DeleteReturn(outcome) == outcome = "ok"

\* get_collection_info: the status of the record returned
InfoStatus(outcome) ==
    IF outcome = "unavailable" THEN "unavailable"
    ELSE IF outcome = "raise" THEN "error"
    ELSE "green"

\* what every operation does besides its own work
GateCall(op, fails, init, outcome) ==
    /\ qdOps < MaxGateOps
    /\ qdClient' = init.client
    /\ qdCollection' = init.collection
    /\ qdInitialized' = TRUE
    /\ qdLast' = [op |-> op, fails |-> fails, outcome |-> outcome]
    /\ qdOps' = qdOps + 1
    /\ qdAttempt' = AttemptAfter
    /\ UNCHANGED <<qdCtorOk, qdReachable, qdFlips>>
    /\ UNCHANGED <<rgLast, rgResult, rgCalls, rgContext, rgOps>>
    /\ UNCHANGED <<splitVars, indexVars, transVars, provVars, chunkVars, apiVars, refreshVars, cacheVars, passVars, allVars>>

\* PointStruct upserts replace the points of the same id
Upserted(points) == {p \in rgPoints : \A n \in points : n.id # p.id} \cup points

UpsertVectors(points, fails) ==
    \E init \in {EnsureInitialized} :
    \E outcome \in {RequestOutcome(init, fails)} :
        /\ GateCall("upsert_vectors", fails, init, outcome)
        /\ rgPoints' = IF outcome = "ok" THEN Upserted(points) ELSE rgPoints
        /\ qdReturn' = [NoGateReturn EXCEPT !.ok = UpsertReturn(outcome)]

GateSearch(chapter_id, fails) ==
    \E init \in {EnsureInitialized} :
    \E outcome \in {RequestOutcome(init, fails)} :
        /\ GateCall("search", fails, init, outcome)
        /\ UNCHANGED rgPoints
        /\ qdReturn' = [NoGateReturn EXCEPT
              !.results = Search(top_k, [given |-> Truthy(chapter_id), value |-> chapter_id],
                                 SearchThreshold, outcome)]

DeleteByFilter(chapter_id, fails) ==
    \E init \in {EnsureInitialized} :
    \E outcome \in {RequestOutcome(init, fails)} :
        /\ GateCall("delete_by_filter", fails, init, outcome)
        /\ rgPoints' = IF outcome = "ok"
                       THEN {p \in rgPoints : p.payload.chapter_id # chapter_id}
                       ELSE rgPoints
        /\ qdReturn' = [NoGateReturn EXCEPT !.ok = DeleteReturn(outcome)]

GetCollectionInfo(fails) ==
    \E init \in {EnsureInitialized} :
    \E outcome \in {RequestOutcome(init, fails)} :
        /\ GateCall("get_collection_info", fails, init, outcome)
        /\ UNCHANGED rgPoints
        /\ qdReturn' = [NoGateReturn EXCEPT !.status = InfoStatus(outcome)]

\* the server goes down or comes back
ServerFlip ==
    /\ qdFlips < MaxFlips
    /\ qdReachable' = ~qdReachable
    /\ qdFlips' = qdFlips + 1
    /\ UNCHANGED <<qdCtorOk, qdClient, qdInitialized, qdCollection, qdLast, qdReturn, qdOps, qdAttempt>>
    /\ UNCHANGED <<splitVars, indexVars, transVars, provVars, ragVars, chunkVars, apiVars, refreshVars, cacheVars, passVars, allVars>>

GateInit ==
    /\ qdCtorOk \in BOOLEAN
    /\ qdReachable \in BOOLEAN
    /\ qdCollection \in BOOLEAN
    /\ GateNew
    /\ rgPoints \in {{}, LowPoints}
    /\ NotQueried
    /\ SplitIdle /\ IndexIdle /\ TransIdle /\ ProviderIdle /\ ChunkIdle /\ ApiIdle /\ RefreshIdle /\ CacheIdle /\ PassIdle /\ AllIdle

GateNext ==
    \/ \E points \in {HighPoints, LowPoints}, fails \in BOOLEAN : UpsertVectors(points, fails)
    \/ \E chapter_id \in {"None", "week-1-intro"}, fails \in BOOLEAN :
          GateSearch(chapter_id, fails)
    \/ \E chapter_id \in {"week-1-intro"}, fails \in BOOLEAN : DeleteByFilter(chapter_id, fails)
    \/ \E fails \in BOOLEAN : GetCollectionInfo(fails)
    \/ ServerFlip

SpecGate == GateInit /\ [][GateNext]_vars

(***************************************************************************)
(* C13.  Vector store graceful degradation: when the store is unreachable  *)
(* at initialization or the request raises at call time, upsert_vectors    *)
(* returns False, search returns an empty list, delete_by_filter returns   *)
(* False and get_collection_info returns a status record; none raises.     *)
(***************************************************************************)
\* the last operation had no client, or its request raised
Degraded == qdLast.outcome # "ok"

C13_GracefulDegradation ==
    qdOps > 0 =>
        /\ ~qdReturn.raised
        /\ qdLast.op = "get_collection_info" => qdReturn.status # "none"
        /\ Degraded =>
              /\ qdLast.op = "upsert_vectors" => qdReturn.ok = FALSE
              /\ qdLast.op = "search" => qdReturn.results = <<>>
              /\ qdLast.op = "delete_by_filter" => qdReturn.ok = FALSE
              /\ qdLast.op = "get_collection_info" =>
                    qdReturn.status \in {"unavailable", "error"}

\* an upsert is asked of a store whose server stopped answering after the
\* client was initialised
C13_Witness ==
    /\ qdOps >= 2
    /\ qdLast.op = "upsert_vectors"
    /\ qdClient = "client"
    /\ qdCollection
    /\ ~qdReachable
    /\ ~qdLast.fails
    /\ qdLast.outcome = "raise"
    /\ qdReturn.ok = FALSE

(***************************************************************************)
(* C14: the chunk_count of a 'success' result of index_chapter is the      *)
(* number of chunks of that pass that are both persisted as rows and       *)
(* upserted as points of the vector store.                                 *)
(***************************************************************************)
PassStored == {i \in PassRows : \E p \in vsPoints : p.id = dbChunks[i].id}

C14_StoredCount ==
    ixResult.status = "success" => ixResult.chunk_count = Cardinality(PassStored)

(***************************************************************************)
(* C19: after any sequence of index_chapter calls the rows on record for   *)
(* a chapter carry, in emission order, the chunk_index values 0, 1, ...,   *)
(* n-1: pairwise distinct and without gaps.                                *)
(***************************************************************************)
C19_OrdinalInvariant ==
    \A c \in Chapters :
        \A i \in 1..Len(ExistingChunks(c)) : ExistingChunks(c)[i].chunk_index = i - 1

(***************************************************************************)
(* C20: every stored row whose embedding_id is set has exactly one point   *)
(* with that id in the vector store.                                       *)
(***************************************************************************)
C20_VectorReference ==
    \A i \in 1..Len(dbChunks) :
        Cardinality({p \in vsPoints : p.id = dbChunks[i].embedding_id}) = 1

(***************************************************************************)
(* C15: a query request in selection mode with no selected_text, or an     *)
(* empty one, is answered 400 with a detail that names selected_text, and  *)
(* no embedding, vector store or completion call is made for it.           *)
(***************************************************************************)
C15_SelectionRequiresText ==
    (/\ apOps > 0
     /\ ValidRequest(apRequest)
     /\ apRequest.context_mode = "selection"
     /\ apRequest.selected_text \in {"None", ""}) =>
        /\ apResponse.status_code = 400
        /\ InSeq("selected_text", apResponse.detail)
        /\ apCalls = <<>>

\* a selection request whose selected_text is the empty string, in an
\* environment where every provider and the store would have answered
C15_Witness ==
    /\ apOps > 0
    /\ apRequest.query = "what is a node?"
    /\ apRequest.context_mode = "selection"
    /\ apRequest.selected_text = ""
    /\ apRequest.embedding = "value"
    /\ apRequest.store = "ok"
    /\ apRequest.completion = "value"
    /\ GetEmbeddingClient # "none"
    /\ apResponse.status_code = 400
    /\ apCalls = <<>>

(***************************************************************************)
(* C16: a query request whose context_mode is neither 'general' nor        *)
(* 'selection' is rejected, and no embedding, vector store or completion   *)
(* call is made for it.                                                    *)
(***************************************************************************)
C16_MalformedModeRejected ==
    (/\ apOps > 0
     /\ ValidRequest(apRequest)
     /\ apRequest.context_mode \notin {"general", "selection"}) =>
        /\ apResponse.status_code \in {400, 422}
        /\ apCalls = <<>>

Refreshed == rfLast.status_code = 200 /\ rfLast.op = trOps

C18_RefreshForcesTranslation ==
    Refreshed =>
        /\ ~trResult.cache_hit
        /\ \E e \in tcCache :
              /\ e.chapter_id = rfLast.chapter_id
              /\ e.content_hash = ComputeContentHash(ChapterContent[rfLast.chapter_id])
              /\ e.urdu_content = rfLast.urdu_content
              /\ e.expires_at = now + CACHE_DURATION_DAYS

(***************************************************************************)
(* TranslationService.translate_to_urdu, several calls in flight for the   *)
(* same chapter and content.  Each call runs on its own session; a step is *)
(* what a call does between two awaits on the database or the provider,    *)
(* and a session sees the rows that are committed.  The table has no       *)
(* unique constraint on (chapter_id, content_hash).                        *)
(***************************************************************************)
SharedChapter == "week-1-intro"
SharedContent == <<"w", "SP", "T">>
SharedHash == ComputeContentHash(SharedContent)

\* the row a previous call cached, still valid or expired at time now
OldRow(expires_at) ==
    [id |-> 0, chapter_id |-> SharedChapter, content_hash |-> SharedHash,
     urdu_content |-> <<"u", "SP", "T", "SP", "TU">>, expires_at |-> expires_at]

\* lines 156-161: the rows the select returns
Matching(rows) ==
    {r \in rows : r.chapter_id = SharedChapter /\ r.content_hash = SharedHash}

\* Mutant: the expired entry left in the table.
EvictRows_Keep(rows, cache_entry) == rows

\* lines 169-172: db.delete(cache_entry) and commit, a DELETE by primary key
EvictRows(rows, cache_entry) == {r \in rows : r.id # cache_entry.id}

\* lines 156-167 and 175-177: select, scalar_one_or_none, is_expired
CacheLookup(p) ==
    /\ ccPc[p] = "lookup"
    /\ \E rows \in {Matching(ccRows)} :
          IF Cardinality(rows) > 1
          THEN \* MultipleResultsFound, caught: None
               /\ ccLookup' = [ccLookup EXCEPT ![p] =
                     [returned |-> TRUE, hit |-> FALSE, raised |-> FALSE, text |-> <<>>]]
               /\ ccPc' = [ccPc EXCEPT ![p] = "translate"]
               /\ UNCHANGED <<ccSeen, ccReturn>>
          ELSE IF rows = {}
          THEN /\ ccLookup' = [ccLookup EXCEPT ![p] =
                     [returned |-> TRUE, hit |-> FALSE, raised |-> FALSE, text |-> <<>>]]
               /\ ccPc' = [ccPc EXCEPT ![p] = "translate"]
               /\ UNCHANGED <<ccSeen, ccReturn>>
          ELSE \E cache_entry \in rows :
               /\ ccSeen' = [ccSeen EXCEPT ![p] = cache_entry]
               /\ IF ~IsExpired(cache_entry)
                     THEN /\ ccLookup' = [ccLookup EXCEPT ![p] =
                                [returned |-> TRUE, hit |-> TRUE, raised |-> FALSE,
                                 text |-> cache_entry.urdu_content]]
                          /\ ccReturn' = [ccReturn EXCEPT ![p] =
                                [returned |-> TRUE, text |-> cache_entry.urdu_content,
                                 cache_hit |-> TRUE]]
                          /\ ccPc' = [ccPc EXCEPT ![p] = "done"]
                     ELSE /\ ccPc' = [ccPc EXCEPT ![p] = "evict"]
                          /\ UNCHANGED <<ccLookup, ccReturn>>
    /\ UNCHANGED <<ccRows, ccPending, ccEvicted>>
    /\ UNCHANGED <<splitVars, indexVars, transVars, provVars, ragVars, chunkVars, gateVars, apiVars, refreshVars, passVars, allVars>>

\* lines 169-177: the expired entry deleted and committed, None returned.
\* stale: what a DELETE that matches no row does to the session, a warning
\* or an exception; the except clause answers None either way.
CacheEvict(p, stale) ==
    /\ ccPc[p] = "evict"
    /\ ccRows' = EvictRows(ccRows, ccSeen[p])
    /\ ccEvicted' = [ccEvicted EXCEPT ![ccSeen[p].id] =
                        IF ccSeen[p] \in ccRows /\ ccSeen[p] \notin ccRows' THEN @ + 1 ELSE @]
    /\ ccLookup' = [ccLookup EXCEPT ![p] =
          [returned |-> TRUE, hit |-> FALSE, raised |-> FALSE, text |-> <<>>]]
    /\ ccPc' = [ccPc EXCEPT ![p] = "translate"]
    /\ (ccSeen[p] \in ccRows => stale = "warning")
    /\ UNCHANGED <<ccSeen, ccPending, ccReturn>>
    /\ UNCHANGED <<splitVars, indexVars, transVars, provVars, ragVars, chunkVars, gateVars, apiVars, refreshVars, passVars, allVars>>

\* lines 239-256: the translation, made while other calls run
CacheTranslate(p) ==
    /\ ccPc[p] = "translate"
    /\ ccPc' = [ccPc EXCEPT ![p] = "delete"]
    /\ UNCHANGED <<ccRows, ccSeen, ccLookup, ccPending, ccReturn, ccEvicted>>
    /\ UNCHANGED <<splitVars, indexVars, transVars, provVars, ragVars, chunkVars, gateVars, apiVars, refreshVars, passVars, allVars>>

\* lines 193-198: DELETE ... WHERE chapter_id = ... AND content_hash = ...
CacheDelete(p) ==
    /\ ccPc[p] = "delete"
    /\ ccPending' = [ccPending EXCEPT ![p] = {r.id : r \in Matching(ccRows)}]
    /\ ccPc' = [ccPc EXCEPT ![p] = "commit"]
    /\ UNCHANGED <<ccRows, ccSeen, ccLookup, ccReturn, ccEvicted>>
    /\ UNCHANGED <<splitVars, indexVars, transVars, provVars, ragVars, chunkVars, gateVars, apiVars, refreshVars, passVars, allVars>>

\* lines 200-209 and 262: the new entry added, the transaction committed
CacheCommit(p) ==
    /\ ccPc[p] = "commit"
    /\ \E text \in {ApplyTechnicalTerms(ProviderTranslate(SharedContent))} :
          /\ ccRows' = {r \in ccRows : r.id \notin ccPending[p]}
                          \cup {[id |-> p, chapter_id |-> SharedChapter,
                                 content_hash |-> SharedHash, urdu_content |-> text,
                                 expires_at |-> now + CACHE_DURATION_DAYS]}
          /\ ccReturn' = [ccReturn EXCEPT ![p] =
                [returned |-> TRUE, text |-> text, cache_hit |-> FALSE]]
    /\ ccPending' = [ccPending EXCEPT ![p] = {}]
    /\ ccPc' = [ccPc EXCEPT ![p] = "done"]
    /\ UNCHANGED <<ccSeen, ccLookup, ccEvicted>>
    /\ UNCHANGED <<splitVars, indexVars, transVars, provVars, ragVars, chunkVars, gateVars, apiVars, refreshVars, passVars, allVars>>

\* the table at the start: empty, an entry still valid, an entry expired
CacheInit ==
    /\ SplitIdle /\ IndexIdle /\ TransIdle /\ ProviderIdle /\ RagIdle /\ ChunkIdle /\ GateIdle /\ ApiIdle /\ RefreshIdle /\ PassIdle /\ AllIdle
    /\ ccRows \in {{}, {OldRow(now + 1)}, {OldRow(now - 1)}}
    /\ NoCallers

CacheNext ==
    \E p \in Callers :
        \/ CacheLookup(p)
        \/ \E stale \in {"warning", "raise"} : CacheEvict(p, stale)
        \/ CacheTranslate(p)
        \/ CacheDelete(p)
        \/ CacheCommit(p)

SpecCache == CacheInit /\ [][CacheNext]_vars

(***************************************************************************)
(* C21: in every reachable state, with any number of translate_to_urdu     *)
(* calls for the same chapter and content in flight, the table holds at    *)
(* most one non-expired entry for a (chapter_id, content_hash) pair.       *)
(***************************************************************************)
C21_CacheEntryUnique ==
    Cardinality({r \in Matching(ccRows) : ~IsExpired(r)}) <= 1

(***************************************************************************)
(* C24: when several lookups select the same expired entry, the entry is   *)
(* removed exactly once, each of them returns no hit and raises nothing,   *)
(* and no call returns the expired translation.                            *)
(***************************************************************************)
SawExpired(p) == ccSeen[p] # NoRow /\ IsExpired(ccSeen[p])

C24_ConcurrentEviction ==
    /\ \A p \in Callers :
          (SawExpired(p) /\ ccLookup[p].returned) =>
              /\ ~ccLookup[p].hit
              /\ ~ccLookup[p].raised
              /\ ccEvicted[ccSeen[p].id] = 1
              /\ ccSeen[p] \notin ccRows
    /\ \A p \in Callers :
          (ccReturn[p].returned /\ ccReturn[p].cache_hit) => ~IsExpired(ccSeen[p])

\* two lookups selected the expired entry before either deleted it, and
\* both have returned
C24_Witness ==
    /\ \A p \in {1, 2} : SawExpired(p) /\ ccLookup[p].returned /\ ~ccLookup[p].hit
    /\ ccEvicted[0] = 1

(***************************************************************************)
(* C22: a cache entry is written only for a translation the provider       *)
(* made: no entry holds the text of _placeholder_translation, which is     *)
(* what translate_to_urdu computes when no provider is configured or the   *)
(* provider call raises.                                                   *)
(***************************************************************************)
IsPlaceholderText(text) == \E i \in 1..Len(text) : text[i] = "PX"

C22_OnlySuccessCached ==
    \A e \in tcCache : ~IsPlaceholderText(e.urdu_content)

(***************************************************************************)
(* C23: when content longer than MAX_CHUNK_SIZE characters is translated,  *)
(* whichever provider is selected, no text sent to the provider in one     *)
(* call is longer than MAX_CHUNK_SIZE.                                     *)
(***************************************************************************)
C23_SubChunkBound ==
    (trOps > 0 /\ CharLen(trLast.content) > MAX_CHUNK_SIZE) =>
        \A k \in 1..Len(trCalls) : CharLen(trCalls[k]) <= MAX_CHUNK_SIZE

(***************************************************************************)
(* C25: in selection mode no retrieved chunk whose text is contained in    *)
(* the selected text is part of the context passed to the completion       *)
(* provider by RAGService.query.                                           *)
(***************************************************************************)
\* Python's "content in selected_text" for the texts of the model: the
\* selected passage is the text of one chunk and contains no other
ContainedIn(content, selected_text) == content # "" /\ content = selected_text

C25_SelectedTextDeduplicated ==
    (rgOps > 0 /\ rgLast.context_mode = "selection" /\ Truthy(rgLast.selected_text)) =>
        \A k \in 1..Len(rgContext) :
            rgContext[k].prefix = "" =>
                ~ContainedIn(rgContext[k].text, rgLast.selected_text)

(***************************************************************************)
(* C27: when the query embedding comes back empty or None, query returns   *)
(* the error-shaped result (no sources, context_count 0, a latency) and    *)
(* makes no vector store search and no completion call.                    *)
(***************************************************************************)
\* the request reached RAGService.query and its embedding came back empty
EmbeddingCameBackEmpty ==
    /\ apOps > 0
    /\ apResponse.status_code \notin {400, 422}
    /\ \A i \in 1..Len(rgCalls) :
          rgCalls[i].capability = "embedding" => rgCalls[i].outcome = "none"

C27_EmbeddingFailureShortCircuits ==
    EmbeddingCameBackEmpty =>
        /\ rgResult.model = "error"
        /\ rgResult.sources = <<>>
        /\ rgResult.context_count = 0
        /\ rgResult.latency = rgLast.elapsed
        /\ ~InSeq("search", apCalls)
        /\ ~InSeq("completion", apCalls)
        /\ \A i \in 1..Len(rgCalls) : rgCalls[i].capability # "completion"

\* the embedding client answered None while the store held matching points
\* and the completion provider would have answered
C27_Witness ==
    /\ EmbeddingCameBackEmpty
    /\ Len(rgCalls) = 1
    /\ rgCalls[1].capability = "embedding"
    /\ rgPoints # {}
    /\ apRequest.store = "ok"
    /\ apRequest.completion = "value"
    /\ GetCompletionClient # "none"
    /\ rgResult.model = "error"

BatchRange(n, k) ==
    [batch |-> k, first |-> (k - 1) * max_batch_size + 1,
     last |-> Min(k * max_batch_size, n)]

\* the embeddings a batch gives back
BatchCount(range, outcome) ==
    CASE outcome = "ok" -> range.last - range.first + 1
      [] outcome = "short" -> range.last - range.first
      [] OTHER -> 0

\* Mutant: the next batch requested while others are in flight.
MayRequest_Parallel(inFlight) == TRUE

\* line 265: the loop goes on only when the awaited call has returned
MayRequest(inFlight) == inFlight = {}

\* lines 263-265: the next batch is requested
PassRequest ==
    /\ ipPc = "embedding"
    /\ MayRequest(ipInFlight)
    /\ Len(ipRequests) < NumBatches(ipN)
    /\ ipRequests' = Append(ipRequests, BatchRange(ipN, Len(ipRequests) + 1))
    /\ ipInFlight' = ipInFlight \cup {Len(ipRequests) + 1}
    /\ UNCHANGED <<ipN, ipVsUp, ipPc, ipEmbeddings, ipRows, ipPoints, ipCommitted>>
    /\ UNCHANGED <<splitVars, indexVars, transVars, provVars, ragVars, chunkVars, gateVars, apiVars, refreshVars, cacheVars, allVars>>

\* lines 265-268 and 96-102: a batch returns; after the last one the
\* counts are compared
PassReturn(k, outcome) ==
    /\ ipPc = "embedding"
    /\ k \in ipInFlight
    /\ ipInFlight' = ipInFlight \ {k}
    /\ ipEmbeddings' = ipEmbeddings + BatchCount(ipRequests[k], outcome)
    /\ ipPc' = IF Len(ipRequests) < NumBatches(ipN) \/ ipInFlight' # {} THEN "embedding"
               ELSE IF ipEmbeddings' # ipN THEN "error"
               ELSE "storing"
    /\ UNCHANGED <<ipN, ipVsUp, ipRequests, ipRows, ipPoints, ipCommitted>>
    /\ UNCHANGED <<splitVars, indexVars, transVars, provVars, ragVars, chunkVars, gateVars, apiVars, refreshVars, cacheVars, allVars>>

\* lines 279-305: one chunk added, flushed and upserted
PassStore ==
    /\ ipPc = "storing"
    /\ ipRows < ipN
    /\ ipRows' = ipRows + 1
    /\ ipPoints' = IF ipVsUp THEN ipPoints + 1 ELSE ipPoints
    /\ UNCHANGED <<ipN, ipVsUp, ipPc, ipRequests, ipInFlight, ipEmbeddings, ipCommitted>>
    /\ UNCHANGED <<splitVars, indexVars, transVars, provVars, ragVars, chunkVars, gateVars, apiVars, refreshVars, cacheVars, allVars>>

\* lines 307-309: the commit
PassCommit ==
    /\ ipPc = "storing"
    /\ ipRows = ipN
    /\ ipCommitted' = ipRows
    /\ ipPc' = "done"
    /\ UNCHANGED <<ipN, ipVsUp, ipRequests, ipInFlight, ipEmbeddings, ipRows, ipPoints>>
    /\ UNCHANGED <<splitVars, indexVars, transVars, provVars, ragVars, chunkVars, gateVars, apiVars, refreshVars, cacheVars, allVars>>

\* the caller abandons the pass: the await it is suspended at raises
\* CancelledError, which no except clause of the pass catches; the rows
\* flushed and not committed are rolled back with the session
PassAbandon ==
    /\ ipPc \in {"embedding", "storing"}
    /\ ipPc' = IF ipPc = "embedding" THEN "abandoned_embedding" ELSE "abandoned_storing"
    /\ ipRows' = 0
    /\ UNCHANGED <<ipN, ipVsUp, ipRequests, ipInFlight, ipEmbeddings, ipPoints, ipCommitted>>
    /\ UNCHANGED <<splitVars, indexVars, transVars, provVars, ragVars, chunkVars, gateVars, apiVars, refreshVars, cacheVars, allVars>>

\* documents of one chunk, of one full batch, of a batch and one chunk more,
\* and of three batches
PassInit ==
    /\ ipN \in {1, max_batch_size, max_batch_size + 1, MaxPassChunks}
    /\ ipVsUp \in BOOLEAN
    /\ PassNew
    /\ SplitIdle /\ IndexIdle /\ TransIdle /\ ProviderIdle /\ RagIdle /\ ChunkIdle /\ GateIdle /\ ApiIdle /\ RefreshIdle /\ CacheIdle /\ AllIdle

PassNext ==
    \/ PassRequest
    \/ \E k \in 1..NumBatches(MaxPassChunks), outcome \in BatchOutcomes : PassReturn(k, outcome)
    \/ PassStore
    \/ PassCommit
    \/ PassAbandon

SpecPass == PassInit /\ [][PassNext]_vars

(***************************************************************************)
(* C26: within one pass the embedding batches, of at most max_batch_size   *)
(* chunks each, are requested one at a time in chunk order, batch k + 1    *)
(* only after batch k has returned; no row is persisted and no point       *)
(* upserted until every batch has returned; a pass abandoned during        *)
(* embedding commits no chunk.                                             *)
(***************************************************************************)
C26_IndexingCallOrder ==
    /\ Cardinality(ipInFlight) <= 1
    /\ \A k \in ipInFlight : k = Len(ipRequests)
    /\ \A k \in 1..Len(ipRequests) :
          /\ ipRequests[k].batch = k
          /\ ipRequests[k].first = (IF k = 1 THEN 1 ELSE ipRequests[k - 1].last + 1)
          /\ ipRequests[k].last - ipRequests[k].first + 1 \in 1..max_batch_size
    /\ (ipRows > 0 \/ ipPoints > 0 \/ ipCommitted > 0) =>
          /\ ipInFlight = {}
          /\ Len(ipRequests) = NumBatches(ipN)
          /\ ipRequests[Len(ipRequests)].last = ipN
    /\ ipPc \in {"abandoned_embedding", "error"} =>
          (ipRows = 0 /\ ipPoints = 0 /\ ipCommitted = 0)

\* a pass of three batches abandoned while its second batch is in flight
C26_Witness ==
    /\ ipN = MaxPassChunks
    /\ ipPc = "abandoned_embedding"
    /\ Len(ipRequests) = 2
    /\ ipInFlight = {2}
    /\ ipCommitted = 0

(***************************************************************************)
(* IndexingService.index_all_chapters: one step for each iteration of its  *)
(* loop, the index_chapter call and the bookkeeping after it.              *)
(***************************************************************************)

\* Mutant: a result that is neither 'success' nor 'skipped' left uncounted.
Tally_SuccessOrSkipped(results, result) ==
    [results EXCEPT
        !.details = Append(@, result),
        !.success = IF result.status = "success" THEN @ + 1 ELSE @,
        !.skipped = IF result.status = "skipped" THEN @ + 1 ELSE @]

\* lines 371-378: the result appended and counted
Tally(results, result) ==
    [results EXCEPT
        !.details = Append(@, result),
        !.success = IF result.status = "success" THEN @ + 1 ELSE @,
        !.skipped = IF result.status = "skipped" THEN @ + 1 ELSE @,
        !.errors  = IF result.status \notin {"success", "skipped"} THEN @ + 1 ELSE @]

\* lines 363-378: one iteration.  An index_chapter call that does not
\* return leaves index_all_chapters suspended in it.
IndexAllStep(vsUp, dbDel, outcomes) ==
    /\ iaPc = "loop"
    /\ Len(iaResults.details) < Len(iaChapters)
    /\ \E chapter \in {iaChapters[Len(iaResults.details) + 1]} :
          IndexChapterCall(chapter.id, chapter.content, iaForce, vsUp, dbDel, outcomes)
    /\ IF ixResult'.status = "no_return"
          THEN iaPc' = "hung" /\ UNCHANGED iaResults
          ELSE iaPc' = "loop" /\ iaResults' = Tally(iaResults, ixResult')
    /\ UNCHANGED <<iaChapters, iaForce>>
    /\ UNCHANGED <<splitVars, transVars, provVars, ragVars, chunkVars, gateVars, apiVars, refreshVars, cacheVars, passVars>>

\* line 380: return results
IndexAllReturn ==
    /\ iaPc = "loop"
    /\ Len(iaResults.details) = Len(iaChapters)
    /\ iaPc' = "done"
    /\ UNCHANGED <<iaChapters, iaForce, iaResults>>
    /\ UNCHANGED <<splitVars, indexVars, transVars, provVars, ragVars, chunkVars, gateVars, apiVars, refreshVars, cacheVars, passVars>>

\* the lists of the model: none; one chapter; a chapter too short to give
\* a chunk and another; the same chapter twice; a chapter of more than one
\* batch and another
ChapterLists ==
    {<<>>,
     <<[id |-> "week-1-intro", content |-> <<"L", "NL">>]>>,
     <<[id |-> "week-1-intro", content |-> <<"s", "NL">>],
       [id |-> "week-2-ros2", content |-> <<"L", "NL">>]>>,
     <<[id |-> "week-1-intro", content |-> <<"L", "NL">>],
       [id |-> "week-1-intro", content |-> <<"L", "NL">>]>>}
    \cup {<<[id |-> "week-1-intro", content |-> d],
            [id |-> "week-2-ros2", content |-> <<"L", "NL">>]>> : d \in Docs}

IndexAllInit ==
    /\ IndexIdle
    /\ iaChapters \in ChapterLists
    /\ iaForce \in BOOLEAN
    /\ iaResults = NewResults(iaChapters)
    /\ iaPc = "loop"
    /\ SplitIdle /\ TransIdle /\ ProviderIdle /\ RagIdle /\ ChunkIdle /\ GateIdle /\ ApiIdle /\ RefreshIdle /\ CacheIdle /\ PassIdle

IndexAllNext ==
    \/ \E vsUp \in BOOLEAN, dbDel \in BOOLEAN, outcomes \in [1..2 -> BatchOutcomes] :
          IndexAllStep(vsUp, dbDel, outcomes)
    \/ IndexAllReturn

SpecIndexAll == IndexAllInit /\ [][IndexAllNext]_vars

(***************************************************************************)
(* C29: when index_all_chapters has processed its list, details holds one  *)
(* entry for each document, in input order, total = success + skipped +    *)
(* errors, and every document whose outcome is 'empty' is counted under    *)
(* errors.                                                                 *)
(***************************************************************************)
CountStatus(details, statuses) ==
    Cardinality({k \in 1..Len(details) : details[k].status \in statuses})

C29_IndexAllAccounting ==
    /\ iaResults.success + iaResults.skipped + iaResults.errors = Len(iaResults.details)
    /\ iaPc = "done" =>
          /\ Len(iaResults.details) = Len(iaChapters)
          /\ \A k \in 1..Len(iaChapters) : iaResults.details[k].chapter_id = iaChapters[k].id
          /\ iaResults.total = Len(iaChapters)
          /\ iaResults.total = iaResults.success + iaResults.skipped + iaResults.errors
          /\ iaResults.success = CountStatus(iaResults.details, {"success"})
          /\ iaResults.skipped = CountStatus(iaResults.details, {"skipped"})
          /\ iaResults.errors = CountStatus(iaResults.details, {"empty", "error"})

\* a list of two documents, the first too short to give a chunk, has been
\* processed
C29_Witness ==
    /\ iaPc = "done"
    /\ Len(iaChapters) = 2
    /\ iaResults.details[1].status = "empty"
    /\ iaResults.details[2].status = "success"
    /\ iaResults.errors = 1
    /\ iaResults.success = 1

(***************************************************************************)
(* C30: the connection and the collection check are attempted at most once *)
(* per store object, on first use; once that attempt has failed,           *)
(* is_available() is false in every later state and every later upsert,   *)
(* search and delete returns False or an empty list without contacting the *)
(* store, even if the store has become reachable.                          *)
(***************************************************************************)
\* is_available() once _initialized is set
IsAvailable == qdClient # "None"

\* the last operation sent a request to Qdrant
Contacted == qdLast.outcome \in {"ok", "raise"}

C30_SingleInitAttempt ==
    /\ qdAttempt.count <= 1
    /\ qdAttempt.count = 1 <=> qdOps >= 1
    /\ qdAttempt.failed =>
          /\ ~IsAvailable
          /\ qdOps >= 2 =>
                /\ ~Contacted
                /\ qdLast.op = "upsert_vectors" => qdReturn.ok = FALSE
                /\ qdLast.op = "search" => qdReturn.results = <<>>
                /\ qdLast.op = "delete_by_filter" => qdReturn.ok = FALSE

=============================================================================
